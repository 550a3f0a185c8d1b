---------------------------- MODULE PeopleProofs ----------------------------
(***************************************************************************)
(* The guard of the last administrator and the replacement of issued        *)
(* secrets, the gate and the SPF record of the sending domain, the          *)
(* readiness page, the meaning of rules and the resolution of an audience,  *)
(* and the throttle of signing in: for any number of people, of requests at *)
(* once, of records, of rules and of windows.                               *)
(***************************************************************************)
EXTENDS StaffAccounts, EmailInfrastructure, ReadinessScreen, Segments, SignIn, FiniteSetTheorems,
        SequenceTheorems, TLAPS

(***************************************************************************)
(* Staff accounts.                                                          *)
(***************************************************************************)
LEMMA StaffInitInv == StaffInit => StaffInv
  <1> SUFFICES ASSUME StaffInit PROVE StaffInv
    OBVIOUS
  <1>1. \A p \in Humans : users[p] = Nobody /\ task[p] = NoTask /\ task[p].op = "none"
    BY StaffAssumption DEF StaffInit, People, NoTask
  <1>2. StaffTypeOK
    <2>1. NoTask \in TaskType
      BY DEF NoTask, TaskType
    <2> DEFINE manager == [role |-> "MANAGER", active |-> TRUE, system |-> FALSE, mustChange |-> FALSE, chosenBy |-> StandIn]
    <2>2. manager \in UserRow
      <3>1. StandIn \in People \cup {"unusable"} /\ "MANAGER" \in Role
        BY DEF People, Role
      <3> QED
        BY <3>1, Zenon DEF UserRow
    <2>3. users \in [People -> {Nobody} \cup UserRow]
      BY <2>2 DEF StaffInit
    <2> QED
      BY <2>1, <2>3, StaffAssumption DEF StaffInit, StaffTypeOK
  <1>3. opened = FALSE
    BY DEF StaffInit
  <1>4. IssuedSecretsAreReplaced
    BY <1>1, StaffAssumption DEF IssuedSecretsAreReplaced, Nobody
  <1> QED
    BY <1>1, <1>2, <1>3, <1>4 DEF StaffInv, TasksAreKnown, NobodyBefore, RemovalsSpareOne, Exists

\* Whoever acts as an administrator is one.
LEMMA ActingIsAdministrator ==
  ASSUME StaffInv, NEW p \in Humans, can(p)
  PROVE  p \in Administrators /\ opened /\ Exists(p)
  <1>1. p \in Administrators
    BY DEF can, SignedIn, Administrators, People
  <1>2. Exists(p)
    BY DEF can, SignedIn, Exists, Nobody
  <1>3. opened
    BY <1>2 DEF StaffInv, NobodyBefore, StaffTypeOK
  <1> QED
    BY <1>1, <1>2, <1>3

\* A step of one request that writes no row: what it waits for next is known,
\* and a removal that is decided by it spares an administrator.
LEMMA Elsewhere ==
  ASSUME StaffInv, NEW p \in Humans, NEW t \in TaskType, task' = [task EXCEPT ![p] = t],
         overtaken' = overtaken \ {p}, UNCHANGED <<users, raced, opened>>, tasks' \in Nat,
         t.op \in {"own", "bootstrap"} => t.target = p,
         t.op \in {"role", "active", "reset", "own"} => Exists(t.target),
         t.op = "role" => (t.role = "MANAGER" <=> t.at \in {"count", "decided"}),
         t.op = "active" /\ t.on => t.at = "commit",
         ~opened => t = NoTask \/ (t.op = "bootstrap" /\ t.at # "retire"),
         Removes(t) => t.op # "bootstrap" /\ (opened => Others(t.target) # {})
  PROVE  StaffInv'
  <1>1. /\ task' \in [Humans -> TaskType] /\ task'[p] = t
        /\ \A q \in Humans \ {p} : task'[q] = task[q]
    BY DEF StaffInv, StaffTypeOK
  <1>2. StaffTypeOK'
    BY <1>1 DEF StaffInv, StaffTypeOK
  <1>3. TasksAreKnown'
    BY <1>1 DEF StaffInv, TasksAreKnown, Exists
  <1>4. NobodyBefore'
    BY <1>1 DEF StaffInv, NobodyBefore, Exists
  <1>5. RemovalsSpareOne'
    <2> SUFFICES ASSUME opened, ~raced
                 PROVE  /\ Administrators' # {}
                        /\ \A q \in Humans \ overtaken' : Removes(task'[q]) => Others(RemovedBy(q))' # {}
      BY DEF RemovalsSpareOne
    <2>1. Administrators' = Administrators
      BY DEF Administrators
    <2>2. \A q \in Humans \ overtaken' : q # p /\ Removes(task'[q]) => Others(RemovedBy(q))' # {}
      BY <1>1, <2>1 DEF StaffInv, RemovalsSpareOne, RemovedBy, Others
    <2>3. Removes(task'[p]) => Others(RemovedBy(p))' # {}
      BY <1>1, <2>1 DEF RemovedBy, Others
    <2> QED
      BY <2>1, <2>2, <2>3 DEF StaffInv, RemovalsSpareOne
  <1>6. IssuedSecretsAreReplaced'
    BY DEF StaffInv, IssuedSecretsAreReplaced
  <1> QED
    BY <1>2, <1>3, <1>4, <1>5, <1>6 DEF StaffInv

LEMMA StartedInv ==
  ASSUME StaffInv, NEW p \in Humans, NEW t \in People, NEW role \in Role, NEW on \in BOOLEAN,
         \/ t \in Humans /\ createStaffAccount(p, t, role)
         \/ setStaffRole(p, t, role)
         \/ setStaffActive(p, t, on)
         \/ resetStaffPassword(p, t)
  PROVE  StaffInv'
  <1>1. can(p) /\ tasks \in Nat
    BY DEF createStaffAccount, setStaffRole, setStaffActive, resetStaffPassword, StaffInv, StaffTypeOK
  <1>2. p \in Administrators /\ opened
    BY <1>1, ActingIsAdministrator
  <1>3. CASE t \in Humans /\ createStaffAccount(p, t, role)
    <2> DEFINE w == [op |-> "create", target |-> t, role |-> role, at |-> "commit"]
    <2>1. w \in TaskType /\ ~Removes(w) /\ w.op = "create"
      BY <1>3 DEF TaskType, Removes
    <2>2. task' = [task EXCEPT ![p] = w] /\ overtaken' = overtaken \ {p} /\ UNCHANGED <<users, raced, opened>> /\ tasks' \in Nat
      BY <1>1, <1>3 DEF createStaffAccount, BeginTask
    <2> HIDE DEF w
    <2> QED
      BY <1>2, <2>1, <2>2, Elsewhere
  <1>4. CASE setStaffRole(p, t, role)
    <2> DEFINE w == [op |-> "role", target |-> t, role |-> role, at |-> Removal(users[t].role = "ADMIN")]
    <2>1. Exists(t) /\ users[t] \in UserRow /\ users[t].role \in Role /\ users[t].role # role
      BY <1>4 DEF setStaffRole, Exists, StaffInv, StaffTypeOK, UserRow
    <2>2. /\ w \in TaskType /\ w.op = "role" /\ w.target = t
          /\ w.role = "MANAGER" <=> w.at \in {"count", "decided"}
          /\ ~Removes(w)
      BY <2>1 DEF TaskType, Removes, Removal, Role
    <2>3. task' = [task EXCEPT ![p] = w] /\ overtaken' = overtaken \ {p} /\ UNCHANGED <<users, raced, opened>> /\ tasks' \in Nat
      BY <1>1, <1>4 DEF setStaffRole, BeginTask
    <2> HIDE DEF w
    <2> QED
      BY <1>2, <2>1, <2>2, <2>3, Elsewhere
  <1>5. CASE setStaffActive(p, t, on)
    <2> DEFINE w == [op |-> "active", target |-> t, on |-> on, at |-> Removal(~on /\ users[t].role = "ADMIN")]
    <2>1. Exists(t) /\ (~on => t # p)
      BY <1>5 DEF setStaffActive
    <2>2. w \in TaskType /\ w.op = "active" /\ w.target = t /\ (w.on => w.at = "commit")
      BY DEF TaskType, Removal
    <2>3. Removes(w) => Others(w.target) # {}
      BY <1>2, <2>1 DEF Removes, Removal, Others
    <2>4. task' = [task EXCEPT ![p] = w] /\ overtaken' = overtaken \ {p} /\ UNCHANGED <<users, raced, opened>> /\ tasks' \in Nat
      BY <1>1, <1>5 DEF setStaffActive, BeginTask
    <2> HIDE DEF w
    <2> QED
      BY <1>2, <2>1, <2>2, <2>3, <2>4, Elsewhere
  <1>6. CASE resetStaffPassword(p, t)
    <2> DEFINE w == [op |-> "reset", target |-> t, at |-> "commit"]
    <2>1. w \in TaskType /\ ~Removes(w) /\ w.op = "reset" /\ w.target = t /\ Exists(t)
      BY <1>6 DEF TaskType, Removes, resetStaffPassword
    <2>2. task' = [task EXCEPT ![p] = w] /\ overtaken' = overtaken \ {p} /\ UNCHANGED <<users, raced, opened>> /\ tasks' \in Nat
      BY <1>1, <1>6 DEF resetStaffPassword, BeginTask
    <2> HIDE DEF w
    <2> QED
      BY <1>2, <2>1, <2>2, Elsewhere
  <1> QED
    BY <1>3, <1>4, <1>5, <1>6

LEMMA OpenDoorInv ==
  ASSUME StaffInv, NEW p \in Humans, changeOwnPassword(p) \/ bootstrapFirstAdministrator(p)
  PROVE  StaffInv'
  <1>1. tasks \in Nat
    BY DEF StaffInv, StaffTypeOK
  <1>2. CASE changeOwnPassword(p)
    <2> DEFINE w == [op |-> "own", target |-> p, at |-> "commit"]
    <2>1. w \in TaskType /\ ~Removes(w) /\ w.op = "own" /\ w.target = p
      BY DEF TaskType, Removes
    <2>2. Exists(p) /\ opened
      <3>1. Exists(p)
        BY <1>2 DEF changeOwnPassword, SignedIn, Exists, Nobody
      <3> QED
        BY <3>1 DEF StaffInv, NobodyBefore, StaffTypeOK
    <2>3. task' = [task EXCEPT ![p] = w] /\ overtaken' = overtaken \ {p} /\ UNCHANGED <<users, raced, opened>> /\ tasks' \in Nat
      BY <1>1, <1>2 DEF changeOwnPassword, BeginTask
    <2> HIDE DEF w
    <2> QED
      BY <2>1, <2>2, <2>3, Elsewhere
  <1>3. CASE bootstrapFirstAdministrator(p)
    <2> DEFINE w == [op |-> "bootstrap", target |-> p, role |-> "ADMIN", at |-> "gate"]
    <2>1. w \in TaskType /\ ~Removes(w) /\ w.op = "bootstrap" /\ w.target = p /\ w.at = "gate"
      BY DEF TaskType, Removes
    <2>2. task' = [task EXCEPT ![p] = w] /\ overtaken' = overtaken \ {p} /\ UNCHANGED <<users, raced, opened>> /\ tasks' \in Nat
      BY <1>1, <1>3 DEF bootstrapFirstAdministrator, BeginTask
    <2> HIDE DEF w
    <2> QED
      BY <2>1, <2>2, Elsewhere
  <1> QED
    BY <1>2, <1>3

\* A removal goes on only when another administrator was counted.
LEMMA ContinuedInv ==
  ASSUME StaffInv, NEW p \in Humans, assertNotLastAdministrator(p) \/ hasRealAdministrator(p) \/ DropTask(p)
  PROVE  StaffInv'
  <1>1. tasks \in Nat /\ task[p] \in TaskType
    BY DEF StaffInv, StaffTypeOK
  <1>2. NoTask \in TaskType /\ ~Removes(NoTask) /\ NoTask.op = "none"
    BY DEF NoTask, TaskType, Removes
  <1>3. CASE task' = [task EXCEPT ![p] = NoTask] /\ overtaken' = overtaken \ {p} /\ UNCHANGED <<users, raced, opened, tasks>>
    BY <1>1, <1>2, <1>3, Elsewhere
  <1>4. CASE assertNotLastAdministrator(p) /\ Others(task[p].target) # {}
    <2> DEFINE w == [task[p] EXCEPT !.at = "decided"]
    <2>1. /\ task[p].op \in {"role", "active"} /\ task[p].at = "count"
          /\ task' = [task EXCEPT ![p] = w] /\ overtaken' = overtaken \ {p} /\ UNCHANGED <<users, raced, opened, tasks>>
      BY <1>4 DEF assertNotLastAdministrator, Continue
    <2>2. /\ w \in TaskType /\ w.op = task[p].op /\ w.target = task[p].target /\ w.at = "decided"
          /\ w.op = "role" => w.role = task[p].role
          /\ w.op = "active" => w.on = task[p].on
      BY <1>1, <2>1 DEF TaskType
    <2> HIDE DEF w
    <2>3. opened
      <3>1. task[p] # NoTask
        BY <2>1 DEF NoTask
      <3> QED
        BY <2>1, <3>1 DEF StaffInv, NobodyBefore, StaffTypeOK
    <2>4. /\ Exists(w.target)
          /\ w.op = "role" => (w.role = "MANAGER" <=> w.at \in {"count", "decided"})
          /\ w.op = "active" /\ w.on => w.at = "commit"
      BY <2>1, <2>2 DEF StaffInv, TasksAreKnown
    <2> QED
      BY <1>1, <1>4, <2>1, <2>2, <2>3, <2>4, Elsewhere
  <1>5. CASE hasRealAdministrator(p) /\ Administrators = {}
    <2> DEFINE w == [task[p] EXCEPT !.at = "commit"]
    <2>1. /\ task[p].op = "bootstrap" /\ task[p].at = "gate"
          /\ task' = [task EXCEPT ![p] = w] /\ overtaken' = overtaken \ {p} /\ UNCHANGED <<users, raced, opened, tasks>>
      BY <1>5 DEF hasRealAdministrator, Continue
    <2>2. w \in TaskType /\ w.op = "bootstrap" /\ w.target = task[p].target /\ w.at = "commit"
      BY <1>1, <2>1 DEF TaskType
    <2> HIDE DEF w
    <2>3. w.target = p /\ ~Removes(w)
      BY <2>1, <2>2 DEF StaffInv, TasksAreKnown, Removes
    <2> QED
      BY <1>1, <2>1, <2>2, <2>3, Elsewhere
  <1> QED
    BY <1>3, <1>4, <1>5 DEF assertNotLastAdministrator, hasRealAdministrator, DropTask, Continue

\* What a transaction writes: a removal may take an administrator away, no
\* other write does; and a secret of someone else's has to be replaced.
LEMMA UpdatedRow ==
  ASSUME StaffInv, NEW p \in Humans, task[p].op # "none", task[p].at \in {"commit", "decided"},
         NEW t, t = task[p].target, NEW new, new = Updated(p, task[p], users[t])
  PROVE  /\ t \in People /\ new \in UserRow
         /\ t \in Administrators /\ ~Removes(task[p]) => new.role = "ADMIN" /\ new.active /\ ~new.system
         /\ t \in Humans /\ new.chosenBy \in Humans \ {t} => new.mustChange
         /\ task[p].op = "bootstrap" =>
              /\ t = p
              /\ ~Exists(t) => new.role = "ADMIN" /\ new.active /\ ~new.system
  <1> DEFINE w == task[p]
             kept == users[t]
  <1>1. w \in TaskType /\ users \in [People -> {Nobody} \cup UserRow] /\ p \in People /\ "MANAGER" # "ADMIN"
    BY DEF StaffInv, StaffTypeOK, People
  <1>2. t \in People
    BY <1>1 DEF TaskType, People
  <1>3. kept \in {Nobody} \cup UserRow /\ (kept # Nobody => kept \in UserRow)
    BY <1>1, <1>2
  <1>4. t \in Humans /\ kept.chosenBy \in Humans \ {t} => kept.mustChange
    BY DEF StaffInv, IssuedSecretsAreReplaced
  <1>5. t \in Administrators => kept.role = "ADMIN" /\ kept.active /\ ~kept.system
    BY DEF Administrators
  <1>6. CASE w.op \in {"role", "active", "reset", "own"}
    <2>1. kept \in UserRow
      BY <1>3, <1>6 DEF StaffInv, TasksAreKnown, Exists
    <2>2. CASE w.op = "role"
      <3>1. w.role \in Role /\ (~Removes(w) => w.role = "ADMIN")
        BY <1>1, <2>2 DEF TaskType, Removes, Role, StaffInv, TasksAreKnown
      <3>2. new = [kept EXCEPT !.role = w.role]
        BY <2>2 DEF Updated
      <3> QED
        BY <1>2, <1>4, <1>5, <2>1, <2>2, <3>1, <3>2 DEF UserRow
    <2>3. CASE w.op = "active"
      <3>1. w.on \in BOOLEAN /\ (~Removes(w) => w.on)
        BY <1>1, <2>3 DEF TaskType, Removes
      <3>2. new = [kept EXCEPT !.active = w.on]
        BY <2>3 DEF Updated
      <3> QED
        BY <1>2, <1>4, <1>5, <2>1, <2>3, <3>1, <3>2 DEF UserRow
    <2>4. CASE w.op = "reset"
      <3>1. new = [kept EXCEPT !.chosenBy = p, !.mustChange = TRUE]
        BY <2>4 DEF Updated
      <3> QED
        BY <1>1, <1>2, <1>4, <1>5, <2>1, <2>4, <3>1 DEF UserRow
    <2>5. CASE w.op = "own"
      <3>1. new = [kept EXCEPT !.chosenBy = p, !.mustChange = FALSE] /\ t = p
        BY <2>5 DEF Updated, StaffInv, TasksAreKnown
      <3> QED
        BY <1>1, <1>2, <1>4, <1>5, <2>1, <2>5, <3>1 DEF UserRow
    <2> QED
      BY <1>6, <2>2, <2>3, <2>4, <2>5
  <1>7. CASE w.op \in {"create", "bootstrap"}
    <2>1. new = IF kept = Nobody THEN NewRow(w.role, p, w.op = "create") ELSE kept
      BY <1>7 DEF Updated
    <2>2. w.role \in Role /\ t \in Humans /\ (w.op = "bootstrap" => t = p /\ w.role = "ADMIN")
      BY <1>1, <1>7 DEF TaskType, StaffInv, TasksAreKnown, Role
    <2>3. CASE kept # Nobody
      BY <1>2, <1>3, <1>4, <1>5, <2>1, <2>2, <2>3 DEF Exists
    <2>4. CASE kept = Nobody
      <3>1. /\ new.role = w.role /\ new.active = TRUE /\ new.system = FALSE /\ new.chosenBy = p
            /\ w.op = "create" => new.mustChange
        <4>1. new = NewRow(w.role, p, w.op = "create")
          BY <2>1, <2>4
        <4>2. w.op = "create" => new.mustChange
          <5> SUFFICES ASSUME w.op = "create" PROVE new.mustChange
            OBVIOUS
          <5>1. (w.op = "create") = TRUE
            OBVIOUS
          <5>2. new = NewRow(w.role, p, TRUE)
            BY <4>1, <5>1, Zenon
          <5> QED
            BY <5>2 DEF NewRow
        <4> QED
          BY <4>1, <4>2 DEF NewRow
      <3>2. new \in UserRow
        BY <1>1, <2>1, <2>2, <2>4 DEF NewRow, UserRow
      <3>3. t \notin Administrators
        BY <2>4 DEF Administrators, Nobody
      <3> QED
        BY <1>2, <1>7, <2>2, <3>1, <3>2, <3>3
    <2> QED
      BY <2>3, <2>4
  <1> QED
    BY <1>1, <1>6, <1>7 DEF TaskType

LEMMA CommitInv == ASSUME StaffInv, NEW p \in Humans, Commit(p) PROVE StaffInv'
  <1> DEFINE w == task[p]
             t == task[p].target
             new == Updated(p, task[p], users[t])
             next == IF w.op = "bootstrap" /\ ~Exists(t) THEN [w EXCEPT !.at = "retire"] ELSE NoTask
  <1>1. /\ w.op # "none" /\ w.at \in {"commit", "decided"} /\ w \in TaskType
        /\ users' = [users EXCEPT ![t] = new] /\ task' = [task EXCEPT ![p] = next] /\ tasks' = tasks
        /\ opened' = (opened \/ w.op = "bootstrap")
        /\ IF Removes(w) THEN Removed(p) ELSE overtaken' = overtaken \ {p} /\ UNCHANGED raced
    BY DEF Commit, StaffInv, StaffTypeOK, TaskType, NoTask
  <1>2. /\ t \in People /\ new \in UserRow
        /\ t \in Administrators /\ ~Removes(w) => new.role = "ADMIN" /\ new.active /\ ~new.system
        /\ t \in Humans /\ new.chosenBy \in Humans \ {t} => new.mustChange
        /\ w.op = "bootstrap" => /\ t = p
                                 /\ ~Exists(t) => new.role = "ADMIN" /\ new.active /\ ~new.system
    BY <1>1, UpdatedRow
  <1>3. /\ users' \in [People -> {Nobody} \cup UserRow] /\ users'[t] = new
        /\ \A u \in People \ {t} : users'[u] = users[u]
        /\ \A u \in People : Exists(u) => Exists(u)'
    <2>1. Nobody \notin UserRow
      BY DEF Nobody, UserRow, Role
    <2> HIDE DEF new, t
    <2> QED
      BY <1>1, <1>2, <2>1 DEF StaffInv, StaffTypeOK, Exists
  <1>4. /\ next \in TaskType
        /\ next = NoTask \/ /\ w.op = "bootstrap" /\ ~Exists(t)
                            /\ next.op = "bootstrap" /\ next.target = p /\ next.at = "retire"
    BY <1>1, <1>2 DEF TaskType, NoTask
  <1>5. /\ task' \in [Humans -> TaskType] /\ task'[p] = next
        /\ \A q \in Humans \ {p} : task'[q] = task[q]
    <2> HIDE DEF next
    <2> QED
      BY <1>1, <1>4 DEF StaffInv, StaffTypeOK
  <1>6. opened'
    <2>1. w # NoTask
      BY <1>1 DEF NoTask
    <2>2. ~opened => w.op = "bootstrap"
      BY <2>1 DEF StaffInv, NobodyBefore
    <2> QED
      BY <1>1, <2>2
  <1>7. ~Removes(w) => Administrators \subseteq Administrators'
    BY <1>2, <1>3 DEF Administrators
  <1>8. Administrators \ {t} \subseteq Administrators'
    BY <1>2, <1>3 DEF Administrators
  <1>9. w.op = "bootstrap" /\ ~Exists(t) => p \in Administrators'
    BY <1>2, <1>3 DEF Administrators
  <1> HIDE DEF next, new
  <1>10. StaffTypeOK'
    <2>1. opened' \in BOOLEAN /\ overtaken' \subseteq Humans /\ raced' \in BOOLEAN
      BY <1>1 DEF StaffInv, StaffTypeOK, Removed
    <2> QED
      BY <1>1, <1>3, <1>5, <2>1 DEF StaffInv, StaffTypeOK
  <1>11. TasksAreKnown'
    <2>1. \A q \in Humans : task[q].op \in {"role", "active", "reset", "own"} => task[q].target \in People
      BY DEF StaffInv, StaffTypeOK, TaskType, People
    <2>2. NoTask.op = "none"
      BY DEF NoTask
    <2> QED
      BY <1>3, <1>4, <1>5, <2>1, <2>2 DEF StaffInv, TasksAreKnown
  <1>12. NobodyBefore'
    BY <1>6 DEF NobodyBefore
  <1>13. RemovalsSpareOne'
    <2> SUFFICES ASSUME ~raced'
                 PROVE  /\ Administrators' # {}
                        /\ \A q \in Humans \ overtaken' : Removes(task'[q]) => Others(RemovedBy(q))' # {}
      BY DEF RemovalsSpareOne
    <2>1. /\ ~raced /\ (Removes(w) => p \notin overtaken)
          /\ Removes(w) => \A q \in Humans \ overtaken' : q # p => ~Removes(task[q])
          /\ ~Removes(w) => overtaken' = overtaken \ {p}
      <3>1. raced \in BOOLEAN /\ raced' \in BOOLEAN
        BY <1>10 DEF StaffInv, StaffTypeOK
      <3> QED
        BY <1>1, <3>1 DEF Removed
    <2>2. Removes(task'[p]) => /\ w.op = "bootstrap" /\ ~Exists(t)
                               /\ p \in Administrators' /\ RemovedBy(p)' = StandIn /\ p # StandIn
      <3>1. ~Removes(NoTask)
        BY DEF NoTask, Removes
      <3>2. p # StandIn
        BY StaffAssumption
      <3> QED
        BY <1>4, <1>5, <1>9, <3>1, <3>2 DEF RemovedBy
    <2>3. CASE ~opened
      <3>1. \A q \in Humans : ~Exists(q) /\ (task[q] # NoTask => task[q].op = "bootstrap" /\ task[q].at # "retire")
        BY <2>3 DEF StaffInv, NobodyBefore
      <3>2. \A q \in Humans : ~Removes(task[q])
        BY <3>1 DEF Removes, NoTask
      <3>3. w.op = "bootstrap" /\ t = p
        BY <1>1, <1>2, <1>6, <2>3
      <3> QED
        BY <1>5, <1>9, <2>2, <3>1, <3>2, <3>3 DEF Others
    <2>4. CASE opened /\ Removes(w)
      <3>1. w.op \in {"role", "active"} /\ RemovedBy(p) = t
        BY <1>1, <2>4 DEF Removes, RemovedBy
      <3>2. Others(t) # {}
        BY <2>1, <2>4, <3>1 DEF StaffInv, RemovalsSpareOne
      <3>3. Administrators' # {}
        BY <1>8, <3>2 DEF Others
      <3> QED
        BY <1>5, <2>1, <2>2, <2>4, <3>1, <3>3
    <2>5. CASE opened /\ ~Removes(w)
      <3>1. /\ Administrators # {}
            /\ \A q \in Humans \ overtaken : Removes(task[q]) => Others(RemovedBy(q)) # {}
        BY <2>1, <2>5 DEF StaffInv, RemovalsSpareOne
      <3>2. \A q \in Humans \ {p} : RemovedBy(q)' = RemovedBy(q)
        BY <1>5 DEF RemovedBy
      <3>3. \A q \in Humans \ overtaken' : q # p /\ Removes(task'[q]) => Others(RemovedBy(q))' # {}
        BY <1>5, <1>7, <2>1, <2>5, <3>1, <3>2 DEF Others
      <3>4. Removes(task'[p]) => Others(RemovedBy(p))' # {}
        BY <2>2 DEF Others
      <3> QED
        BY <1>7, <2>5, <3>1, <3>3, <3>4
    <2> QED
      BY <2>3, <2>4, <2>5
  <1>14. IssuedSecretsAreReplaced'
    <2> SUFFICES ASSUME NEW h \in Humans, users'[h].chosenBy \in Humans \ {h} PROVE users'[h].mustChange
      BY DEF IssuedSecretsAreReplaced
    <2>1. h \in People
      BY DEF People
    <2>2. CASE h = t
      BY <1>2, <1>3, <2>2
    <2>3. CASE h # t
      BY <1>3, <2>1, <2>3 DEF StaffInv, IssuedSecretsAreReplaced
    <2> QED
      BY <2>2, <2>3
  <1> QED
    BY <1>10, <1>11, <1>12, <1>13, <1>14 DEF StaffInv

\* The stand-in is retired when there is somebody else.
LEMMA RetireInv == ASSUME StaffInv, NEW p \in Humans, retireDevelopmentStandIn(p) PROVE StaffInv'
  <1> DEFINE w == task[p]
             new == IF Exists(StandIn) /\ (~users[StandIn].system \/ users[StandIn].active)
                      THEN Retired(users[StandIn]) ELSE users[StandIn]
  <1>1. /\ w.op = "bootstrap" /\ w.at = "retire" /\ Removes(w) /\ RemovedBy(p) = StandIn
        /\ users' = [users EXCEPT ![StandIn] = new] /\ task' = [task EXCEPT ![p] = NoTask]
        /\ overtaken' = (overtaken \cup {q \in Humans : Removes(task[q])}) \ {p}
        /\ raced' = (raced \/ p \in overtaken)
        /\ opened' = opened /\ tasks' = tasks
    BY DEF retireDevelopmentStandIn, Removes, RemovedBy, Removed
  <1>2. StandIn \in People /\ StandIn \notin Humans /\ users[StandIn] \in {Nobody} \cup UserRow
    BY StaffAssumption DEF People, StaffInv, StaffTypeOK
  <1>3. new \in {Nobody} \cup UserRow /\ (Exists(StandIn) => new # Nobody)
    <2>1. Nobody \notin UserRow
      BY DEF Nobody, UserRow, Role
    <2> QED
      BY <1>2, <2>1 DEF Exists, Retired, UserRow
  <1>4. /\ users' \in [People -> {Nobody} \cup UserRow]
        /\ \A u \in Humans : users'[u] = users[u] /\ Exists(u)' = Exists(u)
        /\ \A u \in People : Exists(u) => Exists(u)'
    <2> HIDE DEF new
    <2> QED
      BY <1>1, <1>2, <1>3 DEF StaffInv, StaffTypeOK, Exists, People
  <1>5. NoTask \in TaskType /\ NoTask.op = "none" /\ ~Removes(NoTask)
    BY DEF NoTask, TaskType, Removes
  <1>6. task' \in [Humans -> TaskType] /\ task'[p] = NoTask /\ \A q \in Humans \ {p} : task'[q] = task[q]
    BY <1>1, <1>5 DEF StaffInv, StaffTypeOK
  <1>7. opened
    <2>1. w # NoTask
      BY <1>1 DEF NoTask
    <2> QED
      BY <1>1, <2>1 DEF StaffInv, NobodyBefore
  <1>8. Administrators \ {StandIn} \subseteq Administrators'
    BY <1>4 DEF Administrators, People
  <1> HIDE DEF new
  <1>9. StaffTypeOK'
    <2>1. overtaken' \subseteq Humans /\ raced' \in BOOLEAN
      BY <1>1 DEF StaffInv, StaffTypeOK
    <2> QED
      BY <1>1, <1>4, <1>6, <2>1 DEF StaffInv, StaffTypeOK
  <1>10. TasksAreKnown'
    <2>1. \A q \in Humans : task[q].op \in {"role", "active", "reset", "own"} => task[q].target \in People
      BY DEF StaffInv, StaffTypeOK, TaskType, People
    <2> QED
      BY <1>4, <1>5, <1>6, <2>1 DEF StaffInv, TasksAreKnown
  <1>11. NobodyBefore'
    BY <1>1, <1>7 DEF NobodyBefore
  <1>12. RemovalsSpareOne'
    <2> SUFFICES ASSUME ~raced'
                 PROVE  Administrators' # {} /\ \A q \in Humans \ overtaken' : ~Removes(task'[q])
      BY DEF RemovalsSpareOne
    <2>1. ~raced /\ p \notin overtaken /\ \A q \in Humans \ overtaken' : q # p => ~Removes(task[q])
      BY <1>1 DEF StaffInv, StaffTypeOK
    <2>2. Others(StandIn) # {}
      BY <1>1, <1>7, <2>1 DEF StaffInv, RemovalsSpareOne
    <2> QED
      BY <1>5, <1>6, <1>8, <2>1, <2>2 DEF Others
  <1>13. IssuedSecretsAreReplaced'
    BY <1>4 DEF StaffInv, IssuedSecretsAreReplaced
  <1> QED
    BY <1>9, <1>10, <1>11, <1>12, <1>13 DEF StaffInv

LEMMA StaffStepInv == StaffInv /\ [StaffNext]_staffVars => StaffInv'
  <1> SUFFICES ASSUME StaffInv, [StaffNext]_staffVars PROVE StaffInv'
    OBVIOUS
  <1>1. CASE UNCHANGED staffVars
    BY <1>1 DEF staffVars, StaffInv, StaffTypeOK, TasksAreKnown, NobodyBefore, RemovalsSpareOne, RemovedBy,
                IssuedSecretsAreReplaced, Exists, Administrators, Others
  <1>2. ASSUME NEW p \in Humans, NEW t \in Humans, NEW role \in Role, createStaffAccount(p, t, role) PROVE StaffInv'
    BY <1>2, StartedInv DEF People
  <1>3. ASSUME NEW p \in Humans, NEW t \in People, NEW role \in Role, setStaffRole(p, t, role) PROVE StaffInv'
    BY <1>3, StartedInv
  <1>4. ASSUME NEW p \in Humans, NEW t \in People, NEW on \in BOOLEAN,
               setStaffActive(p, t, on) \/ resetStaffPassword(p, t)
        PROVE  StaffInv'
    <2>1. "ADMIN" \in Role
      BY DEF Role
    <2> QED
      BY <1>4, <2>1, StartedInv
  <1> QED
    BY <1>1, <1>2, <1>3, <1>4, OpenDoorInv, ContinuedInv, CommitInv, RetireInv, Zenon DEF StaffNext

\* The strengthening holds in every behaviour of the accounts.
THEOREM StaffInvariant == StaffSpec => []StaffInv
  BY StaffInitInv, StaffStepInv, PTL DEF StaffSpec

\* userService.ts assertNotLastAdministrator, ADR-0024: for any number of
\* people and requests, the last administrator goes only with a removal that was
\* counted before another removal was committed and committed after it, and an
\* account whose password someone else chose has to replace it.
THEOREM AccountsAreSound == StaffSpec => []AccountsStaySound
  <1>1. StaffInv => AccountsStaySound
    BY DEF StaffInv, RemovalsSpareOne, AccountsStaySound, OnlyARaceTakesTheLast
  <1> QED
    BY <1>1, StaffInvariant, PTL

(***************************************************************************)
(* The gate of the sending domain.                                          *)
(***************************************************************************)
LEMMA InfraInitInv == InfraInit => InfraInv
  <1> SUFFICES ASSUME InfraInit PROVE InfraInv
    OBVIOUS
  <1>1. InfraTypeOK
    BY DEF InfraInit, InfraTypeOK
  <1>2. VerdictsWereTold
    BY DEF InfraInit, VerdictsWereTold, BothVerified, NoRow, NoCheck
  <1> QED
    BY <1>1, <1>2 DEF InfraInv

\* Both verified is what was read off records that say so, or off the status.
LEMMA VerdictIsTold ==
  ASSUME NEW status, NEW said, BothVerified(interpretDomainReport(status, said))
  PROVE  ToldToHold(status, said)
  <1>1. CASE status = "verified"
    BY <1>1 DEF ToldToHold
  <1>2. CASE status # "verified"
    <2>1. recordState(said, "SPF") = "VERIFIED" /\ recordState(said, "DKIM") = "VERIFIED"
      BY <1>2 DEF BothVerified, interpretDomainReport
    <2>2. ASSUME NEW p, recordState(said, p) = "VERIFIED"
          PROVE  /\ \E r \in said : r.purpose = p
                 /\ \A r \in said : r.purpose = p => r.verified
      <3> DEFINE relevant == {r \in said : r.purpose = p}
      <3>1. relevant # {} /\ \A r \in relevant : r.verified
        BY <2>2 DEF recordState
      <3> QED
        BY <3>1
    <2> QED
      BY <2>1, <2>2 DEF ToldToHold, Mechanisms
  <1> QED
    BY <1>1, <1>2

LEMMA InfraStepInv == InfraInv /\ [InfraNext]_infraVars => InfraInv'
  <1> SUFFICES ASSUME InfraInv, [InfraNext]_infraVars PROVE InfraInv'
    OBVIOUS
  <1>1. InfraTypeOK /\ VerdictsWereTold
    BY DEF InfraInv
  <1>2. ASSUME UNCHANGED row, InfraTypeOK',
               \A a \in Admins : checks'[a].at = "store" => checks'[a] = checks[a]
        PROVE  InfraInv'
    BY <1>1, <1>2 DEF InfraInv, VerdictsWereTold, BothVerified
  <1>3. ASSUME NEW d \in Domains, DomainMoves(d) PROVE InfraInv'
    BY <1>1, <1>2, <1>3 DEF DomainMoves, InfraTypeOK
  <1>4. CASE HourPasses
    BY <1>1, <1>2, <1>4 DEF HourPasses, InfraTypeOK
  <1>5. CASE SchedulerTick
    BY <1>1, <1>2, <1>5 DEF SchedulerTick, InfraTypeOK
  <1>6. ASSUME NEW e \in Environments, RestartWith(e) PROVE InfraInv'
    <2>1. InfraTypeOK' /\ UNCHANGED row
      BY <1>1, <1>6 DEF RestartWith, InfraTypeOK
    <2>2. \A a \in Admins : checks'[a].at # "store"
      BY <1>6 DEF RestartWith, NoCheck
    <2> QED
      BY <1>2, <2>1, <2>2
  <1>7. ASSUME NEW a \in Admins, NEW c, Does(a, c), UNCHANGED <<env, domain, beat, hours, changes>>
        PROVE  /\ InfraTypeOK' /\ checks'[a] = c
               /\ \A x \in Admins \ {a} : checks'[x] = checks[x]
    BY <1>1, <1>7 DEF InfraTypeOK, Does
  <1>8. ASSUME NEW a \in Admins, CheckDomain(a) PROVE InfraInv'
    <2> DEFINE c == [at |-> "list"]
    <2>1. Does(a, c) /\ UNCHANGED <<env, domain, row, beat, hours, changes>> /\ c.at # "store"
      BY <1>8 DEF CheckDomain
    <2> HIDE DEF c
    <2> QED
      BY <1>2, <1>7, <2>1
  <1>9. ASSUME NEW a \in Admins, NEW answered \in BOOLEAN, ListDomains(a, answered) PROVE InfraInv'
    <2>1. PICK c : Does(a, c) /\ c \in {[at |-> "get", match |-> domain], NoCheck}
      BY <1>9 DEF ListDomains
    <2>2. c.at # "store" /\ UNCHANGED <<env, domain, row, beat, hours, changes>>
      BY <1>9, <2>1 DEF NoCheck, ListDomains
    <2> QED
      BY <1>2, <1>7, <2>1, <2>2
  <1>10. ASSUME NEW a \in Admins, NEW answered \in BOOLEAN, GetDomain(a, answered) PROVE InfraInv'
    <2>1. PICK status, said :
            Does(a, [at |-> "store", answer |-> interpretDomainReport(status, said),
                     held |-> ToldToHold(status, said)])
      BY <1>10 DEF GetDomain
    <2> DEFINE c == [at |-> "store", answer |-> interpretDomainReport(status, said),
                     held |-> ToldToHold(status, said)]
    <2>2. Does(a, c) /\ UNCHANGED <<env, domain, row, beat, hours, changes>>
      BY <1>10, <2>1 DEF GetDomain
    <2>3. BothVerified(c.answer) => c.held
      BY VerdictIsTold
    <2> HIDE DEF c
    <2>4. InfraTypeOK' /\ checks'[a] = c /\ \A x \in Admins \ {a} : checks'[x] = checks[x]
      BY <1>7, <2>2
    <2>5. VerdictsWereTold'
      BY <1>1, <2>2, <2>3, <2>4 DEF VerdictsWereTold, BothVerified
    <2> QED
      BY <2>4, <2>5 DEF InfraInv
  <1>11. ASSUME NEW a \in Admins, StoreVerdict(a) PROVE InfraInv'
    <2>1. /\ InfraTypeOK' /\ checks'[a] = NoCheck
          /\ \A x \in Admins \ {a} : checks'[x] = checks[x]
      BY <1>7, <1>11 DEF StoreVerdict
    <2>2. row'.spf = checks[a].answer.spf /\ row'.dkim = checks[a].answer.dkim /\ row'.held = checks[a].held
      BY <1>11 DEF StoreVerdict
    <2>3. BothVerified(row)' => row'.held
      BY <1>1, <1>11, <2>2 DEF StoreVerdict, VerdictsWereTold, BothVerified
    <2>4. \A x \in Admins : checks'[x].at = "store" => checks'[x] = checks[x]
      BY <2>1 DEF NoCheck
    <2>5. VerdictsWereTold'
      BY <1>1, <2>3, <2>4 DEF VerdictsWereTold, BothVerified
    <2> QED
      BY <2>1, <2>5 DEF InfraInv
  <1>12. CASE UNCHANGED infraVars
    BY <1>1, <1>2, <1>12 DEF infraVars, InfraTypeOK
  <1> QED
    BY <1>3, <1>4, <1>5, <1>6, <1>8, <1>9, <1>10, <1>11, <1>12 DEF InfraNext

LEMMA OpenGateFacts == ASSUME InfraInv PROVE OpenGateWasReported
  <1> SUFFICES ASSUME ReleaseEnabled
               PROVE  /\ row.held
                      /\ PageSaysReady
                      /\ unsubscribeUrlFor # NoOrigin /\ unsubscribeUrlFor.protocol = "https"
                      /\ ~isLocalOrPrivateHost(unsubscribeUrlFor)
    BY DEF OpenGateWasReported
  <1>1. "switches" \notin Blockers /\ "provider" \notin Blockers /\ "domain" \notin Blockers /\ "public" \notin Blockers
    BY DEF ReleaseEnabled
  <1>2. env.delivery /\ Configured
    BY <1>1 DEF Blockers
  <1>3. row.spf = "VERIFIED" /\ row.dkim = "VERIFIED"
    BY <1>1 DEF Blockers
  <1>4. PublicUnsubscribeReady /\ env.secret = "whsec"
    BY <1>1 DEF Blockers
  <1>5. row.held
    BY <1>3 DEF InfraInv, VerdictsWereTold, BothVerified
  <1>6. /\ validatePublicAppUrl(env.origin, ~env.live) /\ ~isLocalOrPrivateHost(env.origin)
        /\ env.origin.protocol = "https" /\ validatePublicAppUrl(env.origin, TRUE)
    BY <1>4 DEF PublicUnsubscribeReady, DevelopmentOnly, validatePublicAppUrl
  <1>7. PageSaysReady
    BY <1>2, <1>3, <1>4, <1>6 DEF PageSaysReady, ProviderFact, WebhookFact, SendingFact, SecretFact,
                                  mechanismFactState, isLocalOrPrivateHost
  <1>8. unsubscribeUrlFor = env.origin /\ env.origin # NoOrigin
    BY <1>6 DEF unsubscribeUrlFor, NoOrigin
  <1> QED
    BY <1>5, <1>6, <1>7, <1>8

(* What is stored, or about to be stored, as both mechanisms verified was    *)
(* told so by the provider (refreshDomainStatus, interpretDomainReport).     *)
THEOREM InfraInvariant == InfraSpec => []InfraInv
  BY InfraInitInv, InfraStepInv, PTL DEF InfraSpec

(* The gate for customer messages (getCustomerReleaseStatus) is open only on *)
(* a verdict the provider gave record by record, with a page that claims no  *)
(* less and an unsubscribe address its reader can open, for any              *)
(* environments, administrators and answers.                                 *)
THEOREM GateIsReported == InfraSpec => []OpenGateWasReported
  BY InfraInvariant, OpenGateFacts, PTL

(***************************************************************************)
(* The advice on the SPF record.                                            *)
(***************************************************************************)
LEMMA FrontAndLast ==
  ASSUME NEW T, NEW s \in Seq(T), s # <<>>
  PROVE  /\ Len(s) \in Nat \ {0} /\ Front(s) = SubSeq(s, 1, Len(s) - 1) /\ Last(s) = s[Len(s)]
         /\ Front(s) \in Seq(T) /\ Len(Front(s)) = Len(s) - 1 /\ Last(s) \in T
         /\ \A i \in 1..(Len(s) - 1) : Front(s)[i] = s[i]
  <1>1. Len(s) \in Nat \ {0} /\ \A i \in 1..Len(s) : s[i] \in T
    BY EmptySeq, LenProperties, ElementOfSeq
  <1>2. Front(s) = SubSeq(s, 1, Len(s) - 1) /\ Last(s) = s[Len(s)]
    BY DEF Front, Last
  <1>3. /\ SubSeq(s, 1, Len(s) - 1) \in Seq(T) /\ Len(SubSeq(s, 1, Len(s) - 1)) = Len(s) - 1
        /\ \A i \in 1..(Len(s) - 1) : SubSeq(s, 1, Len(s) - 1)[i] = s[i]
    <2> DEFINE n == Len(s) - 1
    <2>1. n \in Nat /\ \A i \in 1..n : s[i] \in T
      BY <1>1
    <2> HIDE DEF n
    <2>2. /\ SubSeq(s, 1, n) \in Seq(T) /\ Len(SubSeq(s, 1, n)) = IF 1 <= n THEN n - 1 + 1 ELSE 0
          /\ \A i \in 1..(n - 1 + 1) : SubSeq(s, 1, n)[i] = s[1 + i - 1]
      BY <2>1, SubSeqProperties
    <2>3. n - 1 + 1 = n /\ \A i \in 1..n : 1 + i - 1 = i
      BY <2>1
    <2>4. Len(SubSeq(s, 1, n)) = n /\ \A i \in 1..n : SubSeq(s, 1, n)[i] = s[i]
      BY <2>1, <2>2, <2>3
    <2> QED
      BY <2>2, <2>4 DEF n
  <1> QED
    BY <1>1, <1>2, <1>3

\* Whoever is put at the end, or right before the end, can be taken out again.
PutIn(s, e, t) == s \o <<e>> \o t
IsPutIn(m, s, e, t) ==
  LET k == Len(s) + 1 IN
  /\ k \in 1..Len(m) /\ m[k] = e /\ RemoveAt(m, k) = s \o t
  /\ e \in Range(m) /\ (t # <<>> => Last(m) = Last(t))

LEMMA TakenOut ==
  ASSUME NEW T, NEW s \in Seq(T), NEW t \in Seq(T), NEW e \in T
  PROVE  PutIn(s, e, t) \in Seq(T) /\ IsPutIn(PutIn(s, e, t), s, e, t)
  <1> DEFINE m == PutIn(s, e, t)
             k == Len(s) + 1
  <1>1. /\ Len(s) \in Nat /\ Len(t) \in Nat /\ m \in Seq(T) /\ Len(m) = Len(s) + 1 + Len(t)
        /\ \A i \in 1..Len(m) : m[i] = IF i <= Len(s) THEN s[i] ELSE IF i = k THEN e ELSE t[i - k]
    BY ConcatProperties, LenProperties DEF PutIn
  <1> HIDE DEF m
  <1>2. k \in 1..Len(m) /\ m[k] = e
    BY <1>1
  <1>3. e \in Range(m)
    BY <1>1, <1>2, RangeEquality
  <1>4. RemoveAt(m, k) = s \o t
    <2> DEFINE a == SubSeq(m, 1, k - 1)  b == SubSeq(m, k + 1, Len(m))
    <2>1. RemoveAt(m, k) = a \o b
      BY DEF RemoveAt
    <2>2. a = s
      BY <1>1
    <2>3. b = t
      BY <1>1
    <2> QED
      BY <2>1, <2>2, <2>3
  <1>5. t # <<>> => Last(m) = Last(t)
    <2>1. ASSUME t # <<>> PROVE m[Len(m)] = t[Len(t)]
      <3>1. Len(t) # 0
        BY <2>1, EmptySeq
      <3>2. Len(m) \in 1..Len(m) /\ ~ (Len(m) <= Len(s)) /\ Len(m) - k = Len(t) /\ (Len(m) = k => FALSE)
        BY <1>1, <3>1
      <3> QED
        BY <1>1, <3>2
    <2> QED
      BY <2>1, Zenon DEF Last
  <1> QED
    BY <1>1, <1>2, <1>3, <1>4, <1>5 DEF m, IsPutIn

(* planSpfMerge, for records of any parts: the advice followed is the advice *)
(* no more, what was there stays in its order with the include as the one    *)
(* addition, a closing all stays last, and the provider is let in unless a   *)
(* longer part contains the include's text.                                  *)
THEOREM SpfMergeIsSound ==
  ASSUME NEW T, NEW include \in T, "all" \in T, "v=spf1" \in T, NEW containing, include \in containing
  PROVE  MergeIsSound(Seq(T), include, containing)
  <1> SUFFICES ASSUME NEW s \in Seq(T)
               PROVE  LET m == planSpfMerge(s, include, containing) IN
                      /\ planSpfMerge(m, include, containing) = m
                      /\ (s # <<>> /\ Range(s) \cap containing = {}) => \E k \in 1..Len(m) : m[k] = include /\ RemoveAt(m, k) = s
                      /\ \/ include \in Range(m)
                         \/ m = s /\ \E part \in Range(s) : part \in containing \ {include}
                      /\ (s = <<>> \/ (Len(s) > 1 /\ Last(s) = "all")) => Last(m) = "all"
    BY DEF MergeIsSound
  <1> DEFINE m == planSpfMerge(s, include, containing)
  <1>1. ASSUME Range(m) \cap containing # {}, m # <<>> PROVE planSpfMerge(m, include, containing) = m
    BY <1>1 DEF planSpfMerge
  <1>2. CASE s = <<>>
    <2>1. m = <<"v=spf1", include, "all">> /\ <<"v=spf1", include, "all">> \in Seq(T)
      BY <1>2 DEF planSpfMerge
    <2> HIDE DEF m
    <2>2. m \in Seq(T) /\ Len(m) = 3 /\ 2 \in 1..Len(m) /\ m[2] = include /\ m[3] = "all" /\ m # <<>>
      BY <2>1
    <2>3. include \in Range(m)
      BY <2>2, RangeEquality
    <2>4. Last(m) = "all"
      BY <2>2 DEF Last
    <2> QED
      BY <1>1, <1>2, <2>2, <2>3, <2>4 DEF m
  <1>3. CASE s # <<>> /\ Range(s) \cap containing # {}
    <2>1. m = s
      BY <1>3 DEF planSpfMerge
    <2>2. include \in Range(s) \/ \E part \in Range(s) : part \in containing \ {include}
      BY <1>3
    <2> QED
      BY <1>1, <1>3, <2>1, <2>2
  <1>4. CASE s # <<>> /\ Range(s) \cap containing = {} /\ Len(s) > 1 /\ Last(s) = "all"
    <2> DEFINE f == Front(s)
    <2>1. /\ Len(s) \in Nat \ {0} /\ f \in Seq(T) /\ Len(f) = Len(s) - 1
          /\ \A i \in 1..(Len(s) - 1) : f[i] = s[i]
          /\ Last(s) = s[Len(s)]
      BY <1>4, FrontAndLast
    <2>2. m = f \o <<include, "all">>
      BY <1>4 DEF planSpfMerge
    <2> HIDE DEF f, m
    <2>3. m = f \o <<include>> \o <<"all">> /\ f \o <<"all">> = s
      <3>1. <<include, "all">> = <<include>> \o <<"all">> /\ <<include>> \in Seq(T) /\ <<"all">> \in Seq(T)
        OBVIOUS
      <3>2. m = f \o <<include>> \o <<"all">>
        <4>1. m = f \o (<<include>> \o <<"all">>)
          BY <2>2, <3>1, Zenon
        <4> QED
          BY <2>1, <3>1, <4>1, ConcatAssociative
      <3>3. f \o <<"all">> = s
        BY <1>4, <2>1
      <3> QED
        BY <3>2, <3>3
    <2>4. <<"all">> \in Seq(T) /\ <<"all">> # <<>> /\ Last(<<"all">>) = "all"
      BY DEF Last
    <2>5. /\ Len(f) + 1 \in 1..Len(m) /\ m[Len(f) + 1] = include /\ RemoveAt(m, Len(f) + 1) = s
          /\ include \in Range(m) /\ Last(m) = "all" /\ m \in Seq(T)
      <3> DEFINE t == <<"all">>
      <3>1. t \in Seq(T) /\ t # <<>> /\ Last(t) = "all" /\ f \o t = s /\ m = PutIn(f, include, t)
        BY <2>3, <2>4 DEF PutIn
      <3> HIDE DEF t
      <3>2. m \in Seq(T) /\ IsPutIn(m, f, include, t)
        BY <2>1, <3>1, TakenOut
      <3> QED
        BY <3>1, <3>2 DEF IsPutIn
    <2>6. m # <<>>
      BY <2>5
    <2> QED
      BY <1>1, <2>5, <2>6 DEF m
  <1>5. CASE s # <<>> /\ Range(s) \cap containing = {} /\ ~(Len(s) > 1 /\ Last(s) = "all")
    <2>1. m = s \o <<include>> \o <<>>
      BY <1>5 DEF planSpfMerge
    <2> HIDE DEF m
    <2>2. <<>> \in Seq(T) /\ s \o <<>> = s
      OBVIOUS
    <2>3. /\ Len(s) + 1 \in 1..Len(m) /\ m[Len(s) + 1] = include /\ RemoveAt(m, Len(s) + 1) = s
          /\ include \in Range(m) /\ m \in Seq(T)
      <3> DEFINE t == <<>>
      <3>1. t \in Seq(T) /\ s \o t = s /\ m = PutIn(s, include, t)
        BY <2>1, <2>2 DEF PutIn
      <3> HIDE DEF t
      <3>2. m \in Seq(T) /\ IsPutIn(m, s, include, t)
        BY <3>1, TakenOut
      <3> QED
        BY <3>1, <3>2 DEF IsPutIn
    <2>4. m # <<>>
      BY <2>3
    <2> QED
      BY <1>1, <1>5, <2>3, <2>4 DEF m
  <1> QED
    BY <1>2, <1>3, <1>4, <1>5

(***************************************************************************)
(* The readiness screen.                                                    *)
(***************************************************************************)
LEMMA ScreenInitInv == ScreenInit => ScreenInv
  <1> SUFFICES ASSUME ScreenInit PROVE ScreenInv
    OBVIOUS
  <1>1. ScreenTypeOK
    <2>1. /\ newsletter = [text |-> 0, status |-> "DRAFT", confirmed |-> 0, typed |-> 0,
                           under |-> [n |-> 0, of |-> 0]]
          /\ crowd \in Crowds /\ frozen = <<>>
          /\ approval = [n |-> 0, of |-> 0, text |-> 0, live |-> FALSE]
          /\ form = [v \in Viewers |-> NoForm] /\ call = [v \in Viewers |-> NoCall]
          /\ pressed = 0 /\ tokens = 0
      BY DEF ScreenInit
    <2>2. NoForm = Fields(NoForm) /\ NoForm.token \in Nat
      BY DEF NoForm, Fields
    <2> QED
      BY <2>1, <2>2 DEF ScreenTypeOK, NewsletterRow, ApprovalRow
  <1>2. \A v \in Viewers : ~Preparing(v)
    BY DEF ScreenInit, Preparing, NoCall
  <1>3. KeysAreFrozen
    BY <1>2 DEF KeysAreFrozen
  <1>4. PressesSuffice
    <2>1. OnTheirWay = {}
      BY <1>2 DEF OnTheirWay
    <2>2. Len(frozen) = 0 /\ pressed = 0
      BY DEF ScreenInit
    <2> QED
      BY <2>1, <2>2, FS_EmptySet DEF PressesSuffice
  <1>5. ScheduleHolds
    BY DEF ScreenInit, ScheduleHolds
  <1> QED
    BY <1>1, <1>3, <1>4, <1>5 DEF ScreenInv

\* The presses on their way are counted.
LEMMA OnTheirWayCount == IsFiniteSet(OnTheirWay) /\ Cardinality(OnTheirWay) \in Nat
  <1>1. OnTheirWay \subseteq Viewers /\ IsFiniteSet(Viewers)
    BY ScreenAssumption DEF OnTheirWay
  <1> QED
    BY <1>1, FS_Subset, FS_CardinalityType

\* One request of one of the staff, that is neither a press nor a new audience.
LEMMA QuietCall ==
  ASSUME ScreenInv, ScreenTypeOK', ScheduleHolds', UNCHANGED <<frozen, pressed>>,
         NEW v \in Viewers, \A u \in Viewers \ {v} : call'[u] = call[u],
         call'[v] = call[v] \/ call'[v].do # "prepare"
           \/ call'[v].at \notin {"sent", "served"}
           \/ (/\ call'[v].at = "served" \/ (call'[v].at = "sent" /\ call'[v].again)
               /\ call'[v].key \in Nat /\ Prepared(call'[v].key))
  PROVE  ScreenInv'
  <1>1. ScreenTypeOK /\ KeysAreFrozen /\ PressesSuffice /\ pressed \in Nat
    BY DEF ScreenInv, ScreenTypeOK
  <1>2. \A key : Prepared(key)' <=> Prepared(key)
    BY DEF Prepared
  <1>3. KeysAreFrozen'
    <2> SUFFICES ASSUME NEW u \in Viewers, call'[u].do = "prepare", call'[u].at \in {"sent", "served"}
                 PROVE  /\ call'[u].key \in Nat
                        /\ call'[u].at = "served" \/ call'[u].again => Prepared(call'[u].key)
      BY <1>2 DEF KeysAreFrozen, Preparing
    <2>1. CASE call'[u] = call[u]
      BY <1>1, <2>1 DEF KeysAreFrozen, Preparing
    <2>2. CASE call'[u] # call[u]
      BY <2>2
    <2> QED
      BY <2>1, <2>2
  <1>4. OnTheirWay' \subseteq OnTheirWay
    BY DEF OnTheirWay, Preparing
  <1>5. PressesSuffice'
    <2>1. Cardinality(OnTheirWay') <= Cardinality(OnTheirWay) /\ Cardinality(OnTheirWay') \in Nat
      BY <1>4, OnTheirWayCount, FS_Subset, FS_CardinalityType
    <2>2. Len(frozen) \in Nat /\ Cardinality(OnTheirWay) \in Nat
      BY <1>1, OnTheirWayCount DEF ScreenTypeOK
    <2> QED
      BY <1>1, <2>1, <2>2 DEF PressesSuffice
  <1> QED
    BY <1>3, <1>5 DEF ScreenInv

\* What moves without a request.
LEMMA MovesInv ==
  ASSUME ScreenInv, TextEdited \/ (\E c \in Crowds : CrowdMoves(c)) \/ UNCHANGED screenVars
  PROVE  ScreenInv'
  <1>1. UNCHANGED <<frozen, approval, form, call, pressed, tokens>>
    BY DEF TextEdited, CrowdMoves, screenVars
  <1>2. /\ newsletter' \in NewsletterRow /\ crowd' \in Crowds
        /\ newsletter' = newsletter \/ (newsletter.status = "DRAFT" /\ newsletter'.status = "DRAFT")
    <2>1. newsletter \in NewsletterRow /\ crowd \in Crowds
      BY DEF ScreenInv, ScreenTypeOK
    <2>2. CASE TextEdited
      BY <2>1, <2>2 DEF TextEdited, NewsletterRow
    <2>3. CASE ~TextEdited
      BY <2>1, <2>3 DEF CrowdMoves, screenVars
    <2> QED
      BY <2>2, <2>3
  <1>3. ScreenTypeOK'
    BY <1>1, <1>2 DEF ScreenInv, ScreenTypeOK
  <1>4. KeysAreFrozen'
    BY <1>1 DEF ScreenInv, KeysAreFrozen, Preparing, Prepared
  <1>5. PressesSuffice' /\ ScheduleHolds'
    BY <1>1, <1>2 DEF ScreenInv, PressesSuffice, OnTheirWay, Preparing, ScheduleHolds
  <1> QED
    BY <1>3, <1>4, <1>5 DEF ScreenInv

\* One field of a form is written, the others stand.
LEMMA FieldWritten ==
  ASSUME NEW f, f = Fields(f), NEW x
  PROVE  /\ [f EXCEPT !.token = x] = [token |-> x, told |-> f.told, asked |-> f.asked, view |-> f.view]
         /\ [f EXCEPT !.told = x] = [token |-> f.token, told |-> x, asked |-> f.asked, view |-> f.view]
         /\ [f EXCEPT !.asked = x] = [token |-> f.token, told |-> f.told, asked |-> x, view |-> f.view]
         /\ [f EXCEPT !.view = x] = [token |-> f.token, told |-> f.told, asked |-> f.asked, view |-> x]
  BY DEF Fields

LEMMA FormWritten ==
  ASSUME NEW f, f = Fields(f), NEW x
  PROVE  /\ LET w == [f EXCEPT !.token = x] IN w = Fields(w) /\ w.token = x
         /\ LET w == [f EXCEPT !.asked = x] IN w = Fields(w) /\ w.token = f.token
         /\ LET w == [f EXCEPT !.view = x] IN w = Fields(w) /\ w.token = f.token
  BY FieldWritten DEF Fields

LEMMA FormRenewed ==
  ASSUME NEW f, f = Fields(f), NEW x, NEW t
  PROVE  [f EXCEPT !.token = t, !.told = x] = [token |-> t, told |-> x, asked |-> f.asked, view |-> f.view]
  <1> DEFINE q == [f EXCEPT !.token = t]
  <1>1. q = [token |-> t, told |-> f.told, asked |-> f.asked, view |-> f.view]
    BY FieldWritten
  <1>2. [f EXCEPT !.token = t, !.told = x] = [q EXCEPT !.told = x]
    OBVIOUS
  <1> HIDE DEF q
  <1>3. [q EXCEPT !.told = x] = [token |-> t, told |-> x, asked |-> f.asked, view |-> f.view]
    BY <1>1
  <1> QED
    BY <1>2, <1>3

\* The page is opened, left, read, shown and asked.
LEMMA BrowsingInv ==
  ASSUME ScreenInv, NEW v \in Viewers,
         \/ OpenPage(v) \/ LeavePage(v) \/ ReadReadiness(v) \/ ShowPage(v) \/ ShowRefusal(v)
         \/ Inspect(v) \/ Ask(v) \/ Withhold(v)
  PROVE  ScreenInv'
  <1>1. UNCHANGED <<backend, pressed>>
    BY DEF OpenPage, LeavePage, ReadReadiness, ShowPage, ShowRefusal, Inspect, Ask, Withhold
  <1>2. ScreenTypeOK
    BY DEF ScreenInv
  <1>3. /\ \/ UNCHANGED form
           \/ OnForm(v, NoForm)
           \/ \E t \in Nat : OnForm(v, [NoForm EXCEPT !.token = t])
           \/ \E t \in Nat : \E w : OnForm(v, [form[v] EXCEPT !.token = t, !.told = w])
           \/ OnForm(v, [form[v] EXCEPT !.view = TRUE])
           \/ \E a \in BOOLEAN : OnForm(v, [form[v] EXCEPT !.asked = a])
        /\ tokens' \in Nat
    <2>1. tokens \in Nat /\ tokens + 1 \in Nat
      BY <1>2 DEF ScreenTypeOK
    <2>2. CASE OpenPage(v)
      BY <2>1, <2>2 DEF OpenPage
    <2>3. CASE LeavePage(v)
      BY <2>1, <2>3 DEF LeavePage
    <2>4. CASE ReadReadiness(v) \/ ShowRefusal(v)
      BY <2>1, <2>4 DEF ReadReadiness, ShowRefusal
    <2>5. CASE ShowPage(v)
      <3>1. \/ UNCHANGED <<form, tokens>>
            \/ /\ tokens' = tokens + 1
               /\ OnForm(v, [form[v] EXCEPT !.token = tokens + 1, !.told = call[v].said.words])
        BY <2>5 DEF ShowPage
      <3> QED
        BY <2>1, <3>1
    <2>6. CASE Inspect(v)
      BY <2>1, <2>6 DEF Inspect
    <2>7. CASE Ask(v)
      BY <2>1, <2>7 DEF Ask
    <2>8. CASE Withhold(v)
      BY <2>1, <2>8 DEF Withhold
    <2> QED
      BY <2>2, <2>3, <2>4, <2>5, <2>6, <2>7, <2>8
  <1>4. /\ form' = [u \in Viewers |-> form'[u]]
        /\ \A u \in Viewers : form'[u] = Fields(form'[u]) /\ form'[u].token \in Nat
    <2>1. /\ form = [u \in Viewers |-> form[u]]
          /\ \A u \in Viewers : form[u] = Fields(form[u]) /\ form[u].token \in Nat
      BY <1>2 DEF ScreenTypeOK
    <2>2. ASSUME NEW w, OnForm(v, w), w = Fields(w), w.token \in Nat
          PROVE  /\ form' = [u \in Viewers |-> form'[u]]
                 /\ \A u \in Viewers : form'[u] = Fields(form'[u]) /\ form'[u].token \in Nat
      BY <2>1, <2>2 DEF OnForm
    <2>3. NoForm = Fields(NoForm) /\ NoForm.token \in Nat
      BY DEF NoForm, Fields
    <2>4. ASSUME NEW t \in Nat PROVE LET w == [NoForm EXCEPT !.token = t] IN w = Fields(w) /\ w.token \in Nat
      BY <2>3, FormWritten
    <2> DEFINE f == form[v]
    <2>f. f = Fields(f) /\ f.token \in Nat
      BY <2>1
    <2>5. ASSUME NEW t \in Nat, NEW x
          PROVE  LET w == [form[v] EXCEPT !.token = t, !.told = x] IN w = Fields(w) /\ w.token \in Nat
      <3> HIDE DEF f
      <3>1. [f EXCEPT !.token = t, !.told = x] = [token |-> t, told |-> x, asked |-> f.asked, view |-> f.view]
        BY <2>f, FormRenewed
      <3> QED
        BY <3>1 DEF f, Fields
    <2>6. ASSUME NEW x
          PROVE  /\ LET w == [form[v] EXCEPT !.view = x] IN w = Fields(w) /\ w.token \in Nat
                 /\ LET w == [form[v] EXCEPT !.asked = x] IN w = Fields(w) /\ w.token \in Nat
      <3> HIDE DEF f
      <3>1. /\ LET w == [f EXCEPT !.view = x] IN w = Fields(w) /\ w.token = f.token
            /\ LET w == [f EXCEPT !.asked = x] IN w = Fields(w) /\ w.token = f.token
        BY <2>f, FormWritten
      <3> QED
        BY <2>f, <3>1 DEF f
    <2>7. CASE UNCHANGED form
      BY <2>1, <2>7
    <2>8. CASE OnForm(v, NoForm)
      BY <2>2, <2>3, <2>8
    <2>9. CASE \E t \in Nat : OnForm(v, [NoForm EXCEPT !.token = t])
      BY <2>2, <2>4, <2>9
    <2>10. CASE \E t \in Nat : \E w : OnForm(v, [form[v] EXCEPT !.token = t, !.told = w])
      BY <2>2, <2>5, <2>10
    <2>11. ASSUME NEW x, OnForm(v, [form[v] EXCEPT !.view = x]) \/ OnForm(v, [form[v] EXCEPT !.asked = x])
           PROVE  /\ form' = [u \in Viewers |-> form'[u]]
                  /\ \A u \in Viewers : form'[u] = Fields(form'[u]) /\ form'[u].token \in Nat
      BY <2>2, <2>6, <2>11
    <2> QED
      BY <1>3, <2>7, <2>8, <2>9, <2>10, <2>11
  <1>5. /\ call' = [u \in Viewers |-> call'[u]] /\ \A u \in Viewers \ {v} : call'[u] = call[u]
        /\ \/ call'[v] = call[v] \/ call'[v].do # "prepare" \/ call'[v].at \notin {"sent", "served"}
    <2>1. \/ UNCHANGED call \/ Request(v, NoCall)
          \/ \E said : Request(v, [do |-> "open", at |-> "served", said |-> said])
          \/ \E said, seen : Request(v, [do |-> call[v].do, at |-> "read", said |-> said, seen |-> seen])
      BY DEF OpenPage, LeavePage, ReadReadiness, ShowPage, ShowRefusal, Inspect, Ask, Withhold
    <2>2. call = [u \in Viewers |-> call[u]]
      BY <1>2 DEF ScreenTypeOK
    <2>3. ASSUME NEW c, Request(v, c), c.do # "prepare" \/ c.at \notin {"sent", "served"}
          PROVE  /\ call' = [u \in Viewers |-> call'[u]] /\ \A u \in Viewers \ {v} : call'[u] = call[u]
                 /\ \/ call'[v].do # "prepare" \/ call'[v].at \notin {"sent", "served"}
      BY <2>2, <2>3 DEF Request
    <2>4. NoCall.do # "prepare"
      BY DEF NoCall
    <2>5. ASSUME NEW said PROVE LET c == [do |-> "open", at |-> "served", said |-> said] IN c.do # "prepare"
      OBVIOUS
    <2>6. ASSUME NEW said, NEW seen
          PROVE  LET c == [do |-> call[v].do, at |-> "read", said |-> said, seen |-> seen]
                 IN  c.at \notin {"sent", "served"}
      OBVIOUS
    <2> QED
      BY <2>1, <2>2, <2>3, <2>4, <2>5, <2>6
  <1>6. ScreenTypeOK'
    BY <1>1, <1>2, <1>3, <1>4, <1>5 DEF ScreenTypeOK, backend
  <1>7. ScheduleHolds'
    BY <1>1 DEF ScreenInv, ScheduleHolds, backend
  <1> QED
    BY <1>1, <1>5, <1>6, <1>7, QuietCall DEF backend

\* A press is counted as it leaves.
LEMMA PressInv ==
  ASSUME ScreenInv, NEW v \in Viewers, NEW do \in Operations, Press(v, do)
  PROVE  ScreenInv'
  <1> DEFINE c == [do |-> do, at |-> "sent", key |-> form[v].token, typed |-> CountShown(page[v]), again |-> FALSE]
  <1>1. ScreenTypeOK /\ KeysAreFrozen /\ PressesSuffice /\ ScheduleHolds
    BY DEF ScreenInv
  <1>2. UNCHANGED <<backend, form, tokens>> /\ Request(v, c)
    BY DEF Press
  <1>3. c.do = do /\ c.at = "sent" /\ c.key \in Nat /\ c.again = FALSE
    BY <1>1 DEF ScreenTypeOK
  <1> HIDE DEF c
  <1>4. /\ call' = [u \in Viewers |-> call'[u]] /\ call'[v] = c
        /\ \A u \in Viewers \ {v} : call'[u] = call[u]
    BY <1>1, <1>2 DEF ScreenTypeOK, Request
  <1>5. pressed' \in Nat /\ pressed' = IF do = "prepare" THEN pressed + 1 ELSE pressed
    BY <1>1 DEF Press, ScreenTypeOK
  <1>6. ScreenTypeOK'
    BY <1>1, <1>2, <1>4, <1>5 DEF ScreenTypeOK, backend
  <1>7. ScheduleHolds'
    BY <1>1, <1>2 DEF ScheduleHolds, backend
  <1>8. CASE do # "prepare"
    <2>1. UNCHANGED <<frozen, pressed>> /\ call'[v].do # "prepare"
      BY <1>2, <1>3, <1>4, <1>5, <1>8 DEF backend
    <2> QED
      BY <1>4, <1>6, <1>7, <2>1, QuietCall
  <1>9. CASE do = "prepare"
    <2>1. KeysAreFrozen'
      <3>1. \A key : Prepared(key)' <=> Prepared(key)
        BY <1>2 DEF Prepared, backend
      <3> QED
        BY <1>1, <1>3, <1>4, <3>1 DEF KeysAreFrozen, Preparing
    <2>2. OnTheirWay' \subseteq OnTheirWay \cup {v}
      BY <1>4 DEF OnTheirWay, Preparing
    <2>3. IsFiniteSet(OnTheirWay \cup {v}) /\ Cardinality(OnTheirWay \cup {v}) \in Nat
          /\ Cardinality(OnTheirWay \cup {v}) <= Cardinality(OnTheirWay) + 1
      <3>1. IsFiniteSet(OnTheirWay) /\ Cardinality(OnTheirWay) \in Nat
        BY OnTheirWayCount
      <3>2. /\ IsFiniteSet(OnTheirWay \cup {v})
            /\ \/ Cardinality(OnTheirWay \cup {v}) = Cardinality(OnTheirWay)
               \/ Cardinality(OnTheirWay \cup {v}) = Cardinality(OnTheirWay) + 1
        <4>1. CASE v \in OnTheirWay
          <5>1. OnTheirWay \cup {v} = OnTheirWay
            BY <4>1
          <5> QED
            BY <3>1, <5>1
        <4>2. CASE v \notin OnTheirWay
          BY <3>1, <4>2, FS_AddElement
        <4> QED
          BY <4>1, <4>2
      <3> HIDE DEF c
      <3> QED
        BY <3>1, <3>2
    <2>4. Cardinality(OnTheirWay') <= Cardinality(OnTheirWay \cup {v}) /\ Cardinality(OnTheirWay') \in Nat
      BY <2>2, <2>3, FS_Subset, FS_CardinalityType
    <2>5. Len(frozen) \in Nat /\ pressed \in Nat /\ Len(frozen') = Len(frozen)
      BY <1>1, <1>2 DEF ScreenTypeOK, backend
    <2>6. PressesSuffice'
      BY <1>1, <1>5, <1>9, <2>3, <2>4, <2>5, OnTheirWayCount DEF PressesSuffice
    <2> QED
      BY <1>6, <1>7, <2>1, <2>6 DEF ScreenInv
  <1> QED
    BY <1>8, <1>9

LEMMA ResendInv ==
  ASSUME ScreenInv, NEW v \in Viewers, Resend(v)
  PROVE  ScreenInv'
  <1> DEFINE c == [do |-> "prepare", at |-> "sent", key |-> call[v].key, typed |-> call[v].typed, again |-> TRUE]
  <1>1. ScreenTypeOK /\ KeysAreFrozen /\ ScheduleHolds
    BY DEF ScreenInv
  <1>2. UNCHANGED <<backend, page, form, pressed, presses, moves, tokens>> /\ Request(v, c)
    BY DEF Resend
  <1>3. c.at = "sent" /\ c.again /\ c.key \in Nat /\ Prepared(c.key)
    BY <1>1 DEF Resend, KeysAreFrozen, Preparing
  <1> HIDE DEF c
  <1>4. /\ call' = [u \in Viewers |-> call'[u]] /\ call'[v] = c
        /\ \A u \in Viewers \ {v} : call'[u] = call[u]
    BY <1>1, <1>2 DEF ScreenTypeOK, Request
  <1>5. ScreenTypeOK' /\ ScheduleHolds' /\ UNCHANGED <<frozen, pressed>>
    BY <1>1, <1>2, <1>4 DEF ScreenTypeOK, ScheduleHolds, backend
  <1> QED
    BY <1>3, <1>4, <1>5, QuietCall

\* A preparation freezes one audience under a key not seen before, or none.
LEMMA PrepareInv ==
  ASSUME ScreenInv, NEW v \in Viewers, call[v].at = "sent", call[v].do = "prepare", PrepareFinalAudience(v),
         UNCHANGED <<page, form, pressed, presses, moves, tokens>>
  PROVE  ScreenInv'
  <1>1. ScreenTypeOK /\ KeysAreFrozen /\ PressesSuffice /\ ScheduleHolds
    BY DEF ScreenInv
  <1>2. call[v].key \in Nat /\ (call[v].again => Prepared(call[v].key))
    BY <1>1 DEF KeysAreFrozen, Preparing
  <1>3. PICK words : Done(v, words)
    BY DEF PrepareFinalAudience
  <1> DEFINE c == [do |-> call[v].do, at |-> "served", said |-> [ok |-> TRUE, words |-> words],
                   key |-> call[v].key, typed |-> call[v].typed, again |-> call[v].again]
  <1>4. Request(v, c)
    BY <1>3 DEF Done
  <1>5. c.at = "served" /\ c.key = call[v].key
    OBVIOUS
  <1> HIDE DEF c
  <1>6. /\ call' = [u \in Viewers |-> call'[u]] /\ call'[v] = c
        /\ \A u \in Viewers \ {v} : call'[u] = call[u]
    BY <1>1, <1>4 DEF ScreenTypeOK, Request
  <1>7. CASE Prepared(call[v].key)
    <2>1. UNCHANGED backend
      BY <1>7 DEF PrepareFinalAudience
    <2>2. ScreenTypeOK' /\ ScheduleHolds' /\ UNCHANGED <<frozen, pressed>>
      BY <1>1, <1>6, <2>1 DEF ScreenTypeOK, ScheduleHolds, backend
    <2> QED
      BY <1>2, <1>5, <1>6, <1>7, <2>2, QuietCall
  <1>8. CASE ~Prepared(call[v].key)
    <2> DEFINE e == [key |-> call[v].key, crowd |-> crowd]
    <2>1. /\ frozen' = Append(frozen, e)
          /\ approval' = [approval EXCEPT !.live = FALSE]
          /\ UNCHANGED <<newsletter, crowd, records>>
      BY <1>8 DEF PrepareFinalAudience
    <2>2. e \in [key : Nat, crowd : Crowds] /\ e.key = call[v].key
      BY <1>1, <1>2 DEF ScreenTypeOK
    <2> HIDE DEF e
    <2>3. /\ frozen' \in Seq([key : Nat, crowd : Crowds]) /\ Len(frozen') = Len(frozen) + 1
          /\ DOMAIN frozen \subseteq DOMAIN frozen' /\ \A i \in DOMAIN frozen : frozen'[i] = frozen[i]
          /\ Len(frozen) + 1 \in DOMAIN frozen' /\ frozen'[Len(frozen) + 1] = e
      BY <1>1, <2>1, <2>2 DEF ScreenTypeOK
    <2>4. /\ approval' \in ApprovalRow /\ ~approval'.live
          /\ approval'.n = approval.n /\ approval'.of = approval.of /\ approval'.text = approval.text
      BY <1>1, <2>1 DEF ScreenTypeOK, ApprovalRow
    <2>5. ScreenTypeOK'
      BY <1>1, <1>6, <2>1, <2>3, <2>4 DEF ScreenTypeOK
    <2>6. ScheduleHolds'
      BY <1>1, <2>1, <2>3, <2>4 DEF ScheduleHolds
    <2>7. \A key : (key = c.key \/ \E i \in DOMAIN frozen : frozen[i].key = key)
                      => \E i \in DOMAIN frozen' : frozen'[i].key = key
      <3> TAKE key
      <3>1. ASSUME key = c.key PROVE frozen'[Len(frozen) + 1].key = key
        BY <1>5, <2>2, <2>3, <3>1
      <3>2. ASSUME NEW i \in DOMAIN frozen, frozen[i].key = key
            PROVE  i \in DOMAIN frozen' /\ frozen'[i].key = key
        BY <2>3, <3>2
      <3> QED
        BY <2>3, <3>1, <3>2
    <2>8. ASSUME NEW u \in Viewers, call'[u].do = "prepare", call'[u].at \in {"sent", "served"}
          PROVE  /\ call'[u].key \in Nat
                 /\ call'[u].at = "served" \/ call'[u].again
                      => \E i \in DOMAIN frozen' : frozen'[i].key = call'[u].key
      <3>1. CASE u = v
        BY <1>2, <1>5, <1>6, <2>7, <3>1
      <3>2. CASE u # v
        <4>1. call'[u] = call[u]
          BY <1>6, <3>2
        <4>2. /\ call[u].key \in Nat
              /\ call[u].at = "served" \/ call[u].again
                   => \E i \in DOMAIN frozen : frozen[i].key = call[u].key
          BY <1>1, <2>8, <4>1 DEF KeysAreFrozen, Preparing, Prepared
        <4> QED
          BY <2>7, <4>1, <4>2
      <3> QED
        BY <3>1, <3>2
    <2>9. KeysAreFrozen'
      BY <2>8 DEF KeysAreFrozen, Preparing, Prepared
    <2>10. v \in OnTheirWay /\ OnTheirWay' \subseteq OnTheirWay \ {v}
      BY <1>2, <1>5, <1>6, <1>8 DEF OnTheirWay, Preparing
    <2>11. IsFiniteSet(OnTheirWay \ {v}) /\ Cardinality(OnTheirWay \ {v}) = Cardinality(OnTheirWay) - 1
      BY <2>10, OnTheirWayCount, FS_RemoveElement
    <2>12. Cardinality(OnTheirWay') <= Cardinality(OnTheirWay \ {v}) /\ Cardinality(OnTheirWay') \in Nat
      BY <2>10, <2>11, FS_Subset, FS_CardinalityType
    <2>13. Len(frozen) \in Nat /\ pressed \in Nat /\ pressed' = pressed
      BY <1>1 DEF ScreenTypeOK
    <2>14. PressesSuffice'
      BY <1>1, <2>3, <2>11, <2>12, <2>13, OnTheirWayCount DEF PressesSuffice
    <2> QED
      BY <2>5, <2>6, <2>9, <2>14 DEF ScreenInv
  <1> QED
    BY <1>7, <1>8

\* Every other request decides by what is true when it is served.
LEMMA ServedInv ==
  ASSUME ScreenInv, NEW v \in Viewers, call[v].do # "prepare",
         Approve(v) \/ Withdraw(v) \/ PrepareLedger(v) \/ Schedule(v) \/ Reschedule(v) \/ Cancel(v),
         UNCHANGED <<page, form, pressed, presses, moves, tokens>>
  PROVE  ScreenInv'
  <1>1. ScreenTypeOK /\ ScheduleHolds
    BY DEF ScreenInv
  <1>2. UNCHANGED <<crowd, frozen>>
    BY DEF Approve, Withdraw, PrepareLedger, Schedule, Reschedule, Cancel, backend
  <1>3. (\E words : Done(v, words)) \/ Refusal(v)
    BY DEF Approve, Withdraw, PrepareLedger, Schedule, Reschedule, Cancel
  <1>4. /\ call' = [u \in Viewers |-> call'[u]] /\ \A u \in Viewers \ {v} : call'[u] = call[u]
        /\ call'[v].do # "prepare"
    <2>1. call = [u \in Viewers |-> call[u]]
      BY <1>1 DEF ScreenTypeOK
    <2>2. ASSUME NEW c, Request(v, c), c.do # "prepare"
          PROVE  /\ call' = [u \in Viewers |-> call'[u]] /\ \A u \in Viewers \ {v} : call'[u] = call[u]
                 /\ call'[v].do # "prepare"
      BY <2>1, <2>2 DEF Request
    <2>3. ASSUME NEW words PROVE LET c == [do |-> call[v].do, at |-> "served", said |-> [ok |-> TRUE, words |-> words],
                                           key |-> call[v].key, typed |-> call[v].typed, again |-> call[v].again]
                                 IN  c.do # "prepare"
      OBVIOUS
    <2>4. LET c == [do |-> call[v].do, at |-> "refused"] IN c.do # "prepare"
      OBVIOUS
    <2> QED
      BY <1>3, <2>2, <2>3, <2>4 DEF Done, Refusal
  <1>5. newsletter \in NewsletterRow /\ approval \in ApprovalRow /\ Len(frozen) \in Nat
        /\ frozen \in Seq([key : Nat, crowd : Crowds])
    BY <1>1 DEF ScreenTypeOK
  <1>6. CASE Approve(v)
    <2>1. UNCHANGED newsletter
      BY <1>6 DEF Approve
    <2> DEFINE given == [n |-> approval.n + 1, of |-> Len(frozen), text |-> newsletter.text, live |-> TRUE]
    <2>2. (frozen # <<>> /\ approval' = given) \/ approval' = approval
      BY <1>6 DEF Approve, AudienceCurrent
    <2>3. given \in ApprovalRow /\ given.n = approval.n + 1 /\ given.of = Len(frozen) /\ approval.n \in Nat
      BY <1>5 DEF ApprovalRow, NewsletterRow
    <2>s. ScheduleHolds'
      <3>1. CASE approval' = approval
        BY <1>1, <1>2, <2>1, <3>1 DEF ScheduleHolds
      <3>2. CASE frozen # <<>> /\ approval' = given
        <4>1. newsletter.status = "SCHEDULED" => newsletter.under.n <= approval.n /\ newsletter.under.n \in Nat
          BY <1>1, <1>5 DEF ScheduleHolds, NewsletterRow
        <4> HIDE DEF given
        <4>2. newsletter.status = "SCHEDULED" =>
                newsletter.under.n <= given.n /\ newsletter.under.n # given.n
          BY <2>3, <4>1
        <4> QED
          BY <1>1, <1>2, <2>1, <2>3, <3>2, <4>2 DEF ScheduleHolds
      <3> QED
        BY <2>2, <3>1, <3>2
    <2>t. approval' \in ApprovalRow
      BY <1>5, <2>2, <2>3
    <2>4. ScreenTypeOK'
      BY <1>1, <1>2, <1>4, <2>1, <2>t DEF ScreenTypeOK
    <2> QED
      BY <1>2, <1>4, <2>s, <2>4, QuietCall
  <1>7. CASE Withdraw(v)
    <2>1. approval' = [approval EXCEPT !.live = FALSE] /\ UNCHANGED newsletter
      BY <1>7 DEF Withdraw
    <2>2. /\ approval' \in ApprovalRow /\ ~approval'.live
          /\ approval'.n = approval.n /\ approval'.of = approval.of /\ approval'.text = approval.text
      BY <1>5, <2>1 DEF ApprovalRow
    <2>3. ScheduleHolds' /\ ScreenTypeOK'
      BY <1>1, <1>2, <1>4, <2>1, <2>2 DEF ScheduleHolds, ScreenTypeOK
    <2> QED
      BY <1>2, <1>4, <2>3, QuietCall
  <1>8. CASE PrepareLedger(v) \/ Reschedule(v)
    <2>1. UNCHANGED <<newsletter, approval>>
      BY <1>8 DEF PrepareLedger, Reschedule, backend
    <2>2. ScheduleHolds' /\ ScreenTypeOK'
      BY <1>1, <1>2, <1>4, <2>1 DEF ScheduleHolds, ScreenTypeOK
    <2> QED
      BY <1>2, <1>4, <2>2, QuietCall
  <1>9. CASE Schedule(v)
    <2>1. UNCHANGED approval
      BY <1>9 DEF Schedule
    <2>2. CASE UNCHANGED newsletter
      <3>1. ScheduleHolds' /\ ScreenTypeOK'
        BY <1>1, <1>2, <1>4, <2>1, <2>2 DEF ScheduleHolds, ScreenTypeOK
      <3> QED
        BY <1>2, <1>4, <3>1, QuietCall
    <2>3. CASE ~UNCHANGED newsletter
      <3>1. /\ Complete /\ call[v].typed = FrozenCount
            /\ newsletter' = [newsletter EXCEPT !.status = "SCHEDULED", !.confirmed = FrozenCount,
                                                !.typed = call[v].typed,
                                                !.under = [n |-> approval.n, of |-> approval.of]]
        BY <1>9, <2>3 DEF Schedule, Confirmed
      <3>2. approval.of = Len(frozen) /\ frozen # <<>>
        BY <3>1 DEF Complete, ApprovalValid, AudienceCurrent
      <3>a. approval.text = newsletter.text /\ approval.n \in Nat /\ approval.of \in Nat
        BY <1>5, <3>1 DEF Complete, ApprovalValid, ApprovalRow
      <3>3. Len(frozen) \in DOMAIN frozen /\ frozen[Len(frozen)].crowd \in Crowds
        <4>1. Len(frozen) # 0
          BY <1>5, <3>2
        <4>2. Len(frozen) \in DOMAIN frozen
          BY <1>5, <4>1
        <4>3. frozen[Len(frozen)] \in [key : Nat, crowd : Crowds]
          <5> DEFINE Audiences == [key : Nat, crowd : Crowds]
          <5>1. frozen \in Seq(Audiences)
            BY <1>5
          <5> HIDE DEF Audiences
          <5>2. frozen[Len(frozen)] \in Audiences
            BY <4>2, <5>1
          <5> QED
            BY <5>2 DEF Audiences
        <4> QED
          BY <4>2, <4>3
      <3>4. FrozenCount = Size[frozen[Len(frozen)].crowd] /\ FrozenCount \in Nat
        BY <3>2, <3>3, ScreenAssumption DEF FrozenCount
      <3>5. /\ newsletter' \in NewsletterRow /\ newsletter'.typed = FrozenCount
            /\ newsletter'.text = newsletter.text
            /\ newsletter'.under.n = approval.n /\ newsletter'.under.of = approval.of
        <4> DEFINE under == [n |-> approval.n, of |-> approval.of]
        <4>1. under \in [n : Nat, of : Nat] /\ under.n = approval.n /\ under.of = approval.of
          BY <3>a
        <4> HIDE DEF under
        <4>2. newsletter' = [newsletter EXCEPT !.status = "SCHEDULED", !.confirmed = FrozenCount,
                                               !.typed = FrozenCount, !.under = under]
          BY <3>1 DEF under
        <4> QED
          BY <1>5, <3>4, <4>1, <4>2 DEF NewsletterRow
      <3>6. ScheduleHolds'
        BY <1>1, <1>2, <2>1, <3>2, <3>a, <3>3, <3>4, <3>5 DEF ScheduleHolds
      <3>7. ScreenTypeOK'
        BY <1>1, <1>2, <1>4, <2>1, <3>5 DEF ScreenTypeOK
      <3> QED
        BY <1>2, <1>4, <3>6, <3>7, QuietCall
    <2> QED
      BY <2>2, <2>3
  <1>10. CASE Cancel(v)
    <2>1. UNCHANGED approval /\ (UNCHANGED newsletter \/ newsletter' = [newsletter EXCEPT !.status = "CANCELED"])
      BY <1>10 DEF Cancel
    <2>2. newsletter' \in NewsletterRow /\ ScheduleHolds'
      BY <1>1, <1>2, <1>5, <2>1 DEF ScheduleHolds, NewsletterRow
    <2>3. ScreenTypeOK'
      BY <1>1, <1>2, <1>4, <2>1, <2>2 DEF ScreenTypeOK
    <2> QED
      BY <1>2, <1>4, <2>2, <2>3, QuietCall
  <1> QED
    BY <1>6, <1>7, <1>8, <1>9, <1>10

LEMMA ScreenStepInv == ScreenInv /\ [ScreenNext]_screenVars => ScreenInv'
  <1> SUFFICES ASSUME ScreenInv, [ScreenNext]_screenVars PROVE ScreenInv'
    OBVIOUS
  <1>1. ASSUME NEW v \in Viewers, Serve(v) PROVE ScreenInv'
    BY <1>1, PrepareInv, ServedInv DEF Serve
  <1>2. ASSUME NEW v \in Viewers, Browse(v) PROVE ScreenInv'
    BY <1>1, <1>2, BrowsingInv, PressInv, ResendInv DEF Browse
  <1> QED
    BY <1>2, MovesInv DEF ScreenNext

(* A form that reaches the server again has frozen its audience, each press  *)
(* is counted, a live approval is of the newest audience, and a schedule     *)
(* keeps the approval it was confirmed under, also when another is given     *)
(* (ReadinessActions.tsx, prepareFinalAudience, scheduleNewsletter).         *)
THEOREM ScreenInvariant == ScreenSpec => []ScreenInv
  BY ScreenInitInv, ScreenStepInv, PTL DEF ScreenSpec

(* A press freezes one audience at most, however often its form arrives;     *)
(* whatever the pages showed, what a scheduled newsletter would send is of   *)
(* as many addresses as were typed, and only while no audience was frozen    *)
(* and no approval given since: for any staff, audiences and presses.        *)
THEOREM PressesCount == ScreenSpec => []EachPressCounts
  <1>1. ScreenInv => EachPressCounts
    <2> SUFFICES ASSUME ScreenInv PROVE EachPressCounts
      OBVIOUS
    <2>1. Len(frozen) \in Nat /\ pressed \in Nat
      BY DEF ScreenInv, ScreenTypeOK
    <2>2. Len(frozen) <= pressed
      BY <2>1, OnTheirWayCount DEF ScreenInv, PressesSuffice
    <2> QED
      BY <2>2 DEF ScreenInv, ScheduleHolds, EachPressCounts, MaySend
  <1> QED
    BY ScreenInvariant, <1>1, PTL

(***************************************************************************)
(* The audience of a newsletter.                                            *)
(***************************************************************************)
\* What an answer says of itself: nobody lost, nobody who opted out.
Accounted(e) ==
    LET sources == UNION {r.sources : r \in e.recipients}
        out == {x.source : x \in e.excluded}
    IN  /\ sources \cup out = e.kept /\ sources \cap out = {}
        /\ e.eligible + Cardinality(e.excluded) = Cardinality(e.kept)
        /\ e.duplicates + Cardinality(e.recipients) = e.eligible
Sound(e, gone) ==
    /\ e.op \in {"shown", "clear", "store"} =>
         Accounted(e) /\ \A r \in e.recipients : r.mail \notin e.optedOut
    /\ e.op \in {"companies", "contacts", "facts"} => e.optedOut \subseteq gone
    /\ e.op = "contacts" => OnceEach(e.read, Companies)
    /\ e.op = "facts" => OnceEach(e.read, Companies \cup Contacts)

LEMMA AudienceParts ==
  AudienceInv <=> errand = [p \in Analysts |-> errand[p]] /\ \A p \in Analysts : Sound(errand[p], unsubscribed)
  BY DEF AudienceInv, OptOutsStay, ReadOnce, AnswersAccountForAll, OptOutsAreInNoAudience,
         NobodyIsLostSilently, Answered, Resolving, Sound, Accounted

LEMMA AudiencePartsNext ==
  AudienceInv' <=> errand' = [p \in Analysts |-> errand'[p]] /\ \A p \in Analysts : Sound(errand'[p], unsubscribed')
  BY DEF AudienceInv, OptOutsStay, ReadOnce, AnswersAccountForAll, OptOutsAreInNoAudience,
         NobodyIsLostSilently, Answered, Resolving, Sound, Accounted

\* A record of a set that names each once is one for each of its names.
LEMMA OnePerName ==
  ASSUME NEW set, IsFiniteSet(set), \A b, c \in set : b.source = c.source => b = c
  PROVE  LET names == {c.source : c \in set}
         IN  IsFiniteSet(names) /\ Cardinality(names) = Cardinality(set)
  <1> DEFINE names == {c.source : c \in set}
  <1> DEFINE f == [c \in set |-> c.source]
  <1>1. f \in Surjection(set, names) /\ f \in Injection(set, names)
    BY DEF Surjection, Injection, IsInjective
  <1> QED
    BY <1>1, FS_Surjection

LEMMA NamesAreFinite ==
  ASSUME NEW set, NEW all, IsFiniteSet(all), {c.source : c \in set} \subseteq all,
         \A b, c \in set : b.source = c.source => b = c
  PROVE  IsFiniteSet(set)
  <1> DEFINE names == {c.source : c \in set}
  <1> DEFINE f == [c \in set |-> c.source]
  <1>1. f \in Injection(set, names)
    BY DEF Injection, IsInjective
  <1>2. IsFiniteSet(names)
    BY FS_Subset
  <1> QED
    BY <1>1, <1>2, FS_Injection

\* The recipients are of those who may be written to, the exclusions of the rest.
LEMMA ResolutionAccounts ==
  ASSUME NEW kept, NEW language, IsFiniteSet(kept), \A b, c \in kept : b.source = c.source => b = c
  PROVE  LET recipients == Recipients(kept, language)
             excluded == Excluded(kept, language)
             sources == UNION {r.sources : r \in recipients}
             out == {x.source : x \in excluded}
         IN  /\ sources \cup out = {c.source : c \in kept} /\ sources \cap out = {}
             /\ Cardinality(sources) + Cardinality(excluded) = Cardinality({c.source : c \in kept})
             /\ Cardinality(sources) \in Nat /\ Cardinality(recipients) \in Nat
             /\ \A r \in recipients : r.mail \notin unsubscribed
  <1> DEFINE fit == {c \in kept : evaluateEligibility(c, language) = "none"}
             unfit == {c \in kept : evaluateEligibility(c, language) # "none"}
             recipients == Recipients(kept, language)
             excluded == Excluded(kept, language)
             sources == UNION {r.sources : r \in recipients}
             out == {x.source : x \in excluded}
             names == {c.source : c \in kept}
             mails == {c.mail : c \in fit}
  <1>1. sources = {c.source : c \in fit}
    <2> DEFINE of(m) == {c.source : c \in {x \in fit : x.mail = m}}
    <2>1. recipients = {[mail |-> m, sources |-> of(m)] : m \in mails}
      BY DEF Recipients
    <2>2. {r.sources : r \in recipients} = {of(m) : m \in mails}
      <3>1. ASSUME NEW m \in mails PROVE \E r \in recipients : r.sources = of(m)
        <4> HIDE DEF of, mails, recipients
        <4>1. [mail |-> m, sources |-> of(m)] \in recipients
          BY <2>1
        <4> QED
          BY <4>1
      <3>2. ASSUME NEW r \in recipients PROVE \E m \in mails : r.sources = of(m)
        <4> HIDE DEF of, mails, recipients
        <4> QED
          BY <2>1
      <3> HIDE DEF of, mails, recipients
      <3> QED
        BY <3>1, <3>2
    <2>3. UNION {of(m) : m \in mails} = {c.source : c \in fit}
      <3>1. ASSUME NEW c \in fit PROVE c.mail \in mails /\ c.source \in of(c.mail)
        OBVIOUS
      <3>2. ASSUME NEW m \in mails, NEW n \in of(m) PROVE n \in {c.source : c \in fit}
        OBVIOUS
      <3> HIDE DEF of, mails, fit
      <3> QED
        BY <3>1, <3>2
    <2> QED
      BY <2>2, <2>3
  <1>2. out = {c.source : c \in unfit}
    <2>1. ASSUME NEW c \in unfit PROVE \E x \in excluded : x.source = c.source
      <3>1. [source |-> c.source, reason |-> evaluateEligibility(c, language)] \in excluded
        BY DEF Excluded
      <3> QED
        BY <3>1
    <2>2. ASSUME NEW x \in excluded PROVE \E c \in unfit : x.source = c.source
      BY DEF Excluded
    <2> HIDE DEF excluded, unfit
    <2> QED
      BY <2>1, <2>2
  <1>3. IsFiniteSet(fit) /\ IsFiniteSet(unfit)
    BY FS_Subset
  <1>4. \A x, y \in excluded : x.source = y.source => x = y
    BY DEF Excluded
  <1>5. IsFiniteSet(excluded)
    <2>1. IsFiniteSet(out)
      BY <1>2, <1>3, OnePerName
    <2>2. {x.source : x \in excluded} \subseteq out
      OBVIOUS
    <2> HIDE DEF excluded
    <2> QED
      BY <1>4, <2>1, <2>2, NamesAreFinite
  <1>6. /\ IsFiniteSet(out) /\ Cardinality(out) = Cardinality(excluded)
        /\ IsFiniteSet(sources) /\ IsFiniteSet(names)
    <2>1. IsFiniteSet(out) /\ Cardinality(out) = Cardinality(excluded)
      <3> HIDE DEF excluded
      <3> QED
        BY <1>4, <1>5, OnePerName
    <2>2. IsFiniteSet(sources)
      BY <1>1, <1>3, OnePerName
    <2>3. IsFiniteSet(names)
      BY OnePerName
    <2> QED
      BY <2>1, <2>2, <2>3
  <1>7. sources \cup out = names /\ sources \cap out = {}
    BY <1>1, <1>2
  <1>8. Cardinality(names) = Cardinality(sources) + Cardinality(out)
    <2> HIDE DEF sources, out, names
    <2>1. Cardinality(names) = Cardinality(sources) + Cardinality(out) - Cardinality({})
      BY <1>6, <1>7, FS_Union
    <2>2. Cardinality({}) = 0 /\ Cardinality(sources) \in Nat /\ Cardinality(out) \in Nat
      BY <1>6, FS_EmptySet, FS_CardinalityType
    <2> QED
      BY <2>1, <2>2
  <1>9. IsFiniteSet(recipients)
    <2>1. IsFiniteSet(mails)
      <3> DEFINE f == [c \in fit |-> c.mail]
      <3>1. f \in Surjection(fit, mails)
        BY DEF Surjection
      <3> QED
        BY <1>3, <3>1, FS_Surjection
    <2> DEFINE g == [m \in mails |-> [mail |-> m, sources |-> {c.source : c \in {x \in fit : x.mail = m}}]]
    <2>2. g \in Surjection(mails, recipients)
      BY DEF Surjection, Recipients
    <2> HIDE DEF g, mails, recipients
    <2> QED
      BY <2>1, <2>2, FS_Surjection
  <1>10. \A r \in recipients : r.mail \notin unsubscribed
    <2>1. ASSUME NEW c \in fit PROVE c.mail \notin unsubscribed
      BY <2>1 DEF evaluateEligibility, loadAddressFacts
    <2>2. \A r \in recipients : r.mail \in mails
      BY DEF Recipients
    <2> QED
      BY <2>1, <2>2
  <1> HIDE DEF recipients, excluded, sources, out, names
  <1>11. Cardinality(sources) \in Nat /\ Cardinality(recipients) \in Nat
    BY <1>6, <1>9, FS_CardinalityType
  <1>12. Cardinality(sources) + Cardinality(excluded) = Cardinality(names)
    BY <1>6, <1>8
  <1> QED
    BY <1>7, <1>10, <1>11, <1>12 DEF recipients, excluded, sources, out, names

\* Opt-outs only grow, and a step is of one request at most.
LEMMA AwaitInv ==
  ASSUME AudienceInv, NEW p \in Analysts, NEW e, Await(p, e), UNCHANGED unsubscribed,
         Sound(e, unsubscribed)
  PROVE  AudienceInv'
  <1>1. errand = [q \in Analysts |-> errand[q]] /\ \A q \in Analysts : Sound(errand[q], unsubscribed)
    BY AudienceParts
  <1>2. errand' = [q \in Analysts |-> errand'[q]] /\ errand'[p] = e /\ \A q \in Analysts \ {p} : errand'[q] = errand[q]
    BY <1>1 DEF Await
  <1>3. \A q \in Analysts : Sound(errand'[q], unsubscribed')
    BY <1>1, <1>2
  <1> QED
    BY <1>2, <1>3, AudiencePartsNext

LEMMA OthersInv ==
  ASSUME AudienceInv, UNCHANGED errand, unsubscribed \subseteq unsubscribed'
  PROVE  AudienceInv'
  <1>1. \A p \in Analysts : Sound(errand[p], unsubscribed)
    BY AudienceParts
  <1>2. \A p \in Analysts : Sound(errand[p], unsubscribed')
    BY <1>1 DEF Sound
  <1> QED
    BY <1>2, AudienceParts, AudiencePartsNext

\* The reads of the resolution, one after the other.
LEMMA ReadingInv ==
  ASSUME AudienceInv, NEW p \in Analysts, ReadCompanies(p) \/ ReadContacts(p)
  PROVE  AudienceInv'
  <1> DEFINE e == errand[p]
  <1>1. Sound(e, unsubscribed) /\ UNCHANGED unsubscribed
    BY AudienceParts DEF ReadCompanies, ReadContacts
  <1>2. CASE ReadCompanies(p)
    <2> DEFINE read == IF e.rules.companyEmails THEN {CompanyCandidate(c) : c \in ChosenCompanies(e.rules)} ELSE {}
    <2>1. Await(p, Reads(e, "contacts", read)) /\ e.op = "companies"
      BY <1>2 DEF ReadCompanies
    <2>2. OnceEach(read, Companies)
      <3>1. ChosenCompanies(e.rules) \subseteq Companies
        BY DEF ChosenCompanies
      <3>2. \A c \in Companies : CompanyCandidate(c).source = c
        BY DEF CompanyCandidate
      <3>3. \A x \in read : \E c \in Companies : x = CompanyCandidate(c)
        BY <3>1
      <3> HIDE DEF read
      <3> QED
        BY <3>2, <3>3 DEF OnceEach
    <2> HIDE DEF read, e
    <2>3. Sound(Reads(e, "contacts", read), unsubscribed)
      BY <1>1, <2>1, <2>2 DEF Sound, Reads
    <2> QED
      BY <1>1, <2>1, <2>3, AwaitInv
  <1>3. CASE ReadContacts(p)
    <2> DEFINE new == IF e.rules.contactEmails THEN {ContactCandidate(k) : k \in ChosenContacts(e.rules)} ELSE {}
               read == e.read \cup new
    <2>1. Await(p, Reads(e, "facts", read)) /\ e.op = "contacts"
      BY <1>3 DEF ReadContacts
    <2>2. OnceEach(read, Companies \cup Contacts)
      <3>1. ChosenContacts(e.rules) \subseteq Contacts
        BY DEF ChosenContacts
      <3>2. \A k \in Contacts : ContactCandidate(k).source = k
        BY DEF ContactCandidate
      <3>3. \A x \in new : \E k \in Contacts : x = ContactCandidate(k)
        BY <3>1
      <3>4. \A x \in e.read : x.source \in Companies
        BY <1>1, <2>1 DEF Sound, OnceEach
      <3>5. \A x, y \in e.read : x.source = y.source => x = y
        BY <1>1, <2>1 DEF Sound, OnceEach
      <3>6. \A x \in new : x.source \in Contacts /\ x = ContactCandidate(x.source)
        BY <3>2, <3>3
      <3> HIDE DEF new, e
      <3>7. \A x, y \in read : x.source = y.source => x = y
        BY <3>4, <3>5, <3>6, CrmAssumption
      <3> QED
        BY <3>4, <3>6, <3>7 DEF OnceEach
    <2> HIDE DEF read, e
    <2>3. Sound(Reads(e, "facts", read), unsubscribed)
      BY <1>1, <2>1, <2>2 DEF Sound, Reads
    <2> QED
      BY <1>1, <2>1, <2>3, AwaitInv
  <1> QED
    BY <1>2, <1>3

LEMMA ResolveInv ==
  ASSUME AudienceInv, NEW p \in Analysts, resolveAudience(p)
  PROVE  AudienceInv'
  <1> DEFINE e == errand[p]
             kept == MatchingRecords(e.rules, e.read)
             recipients == Recipients(kept, e.language)
             excluded == Excluded(kept, e.language)
             sources == UNION {r.sources : r \in recipients}
             out == {x.source : x \in excluded}
             answer == [op |-> IF e.letter THEN "clear" ELSE "shown", at |-> e.at, optedOut |-> e.optedOut,
                        kept |-> {c.source : c \in kept}, recipients |-> recipients,
                        excluded |-> excluded, eligible |-> Cardinality(sources),
                        duplicates |-> Cardinality(sources) - Cardinality(recipients)]
  <1>1. Await(p, answer) /\ e.op = "facts" /\ UNCHANGED unsubscribed
    BY DEF resolveAudience
  <1>2. Sound(e, unsubscribed)
    BY AudienceParts
  <1>3. IsFiniteSet(kept) /\ \A b, c \in kept : b.source = c.source => b = c
    <2>1. OnceEach(e.read, Companies \cup Contacts) /\ kept \subseteq e.read
      BY <1>1, <1>2 DEF Sound, MatchingRecords
    <2>2. IsFiniteSet(Companies \cup Contacts)
      BY CrmAssumption, FS_Union
    <2> HIDE DEF kept, e
    <2>3. IsFiniteSet(e.read)
      BY <2>1, <2>2, NamesAreFinite DEF OnceEach
    <2> QED
      BY <2>1, <2>3, FS_Subset DEF OnceEach
  <1> HIDE DEF kept
  <1>4. /\ sources \cup out = {c.source : c \in kept} /\ sources \cap out = {}
        /\ Cardinality(sources) + Cardinality(excluded) = Cardinality({c.source : c \in kept})
        /\ Cardinality(sources) \in Nat /\ Cardinality(recipients) \in Nat
        /\ \A r \in recipients : r.mail \notin unsubscribed
    BY <1>3, ResolutionAccounts
  <1> HIDE DEF recipients, excluded, e
  <1>5. /\ answer.optedOut = e.optedOut /\ answer.kept = {c.source : c \in kept}
        /\ answer.recipients = recipients /\ answer.excluded = excluded
        /\ answer.eligible = Cardinality(sources)
        /\ answer.duplicates = Cardinality(sources) - Cardinality(recipients)
        /\ answer.op \in {"clear", "shown"}
    OBVIOUS
  <1>6. e.optedOut \subseteq unsubscribed
    BY <1>1, <1>2 DEF Sound
  <1>7. Sound(answer, unsubscribed)
    <2> HIDE DEF answer
    <2>1. Accounted(answer)
      <3>1. UNION {r.sources : r \in answer.recipients} = sources /\ {x.source : x \in answer.excluded} = out
        BY <1>5
      <3>2. answer.eligible + Cardinality(answer.excluded) = Cardinality(answer.kept)
        BY <1>4, <1>5
      <3>3. answer.duplicates + Cardinality(answer.recipients) = answer.eligible
        <4> DEFINE i == Cardinality(sources)
                   j == Cardinality(recipients)
        <4>1. i \in Nat /\ j \in Nat /\ answer.eligible = i /\ answer.duplicates = i - j
              /\ Cardinality(answer.recipients) = j
          BY <1>4, <1>5
        <4> HIDE DEF i, j
        <4> QED
          BY <4>1
      <3> HIDE DEF sources, out
      <3> QED
        BY <1>4, <1>5, <3>1, <3>2, <3>3 DEF Accounted
    <2>2. \A r \in answer.recipients : r.mail \notin answer.optedOut
      BY <1>4, <1>5, <1>6
    <2> QED
      BY <1>5, <2>1, <2>2 DEF Sound
  <1> HIDE DEF answer
  <1> QED
    BY <1>1, <1>7, AwaitInv

\* An answer that is stored or dismissed, and the requests of another kind.
LEMMA AnsweredInv ==
  ASSUME AudienceInv, NEW p \in Analysts, ClearSnapshots(p)
  PROVE  AudienceInv'
  <1> DEFINE e == errand[p]
             stored == [op |-> "store", seen |-> snapshots, at |-> e.at, optedOut |-> e.optedOut,
                        kept |-> e.kept, recipients |-> e.recipients, excluded |-> e.excluded,
                        eligible |-> e.eligible, duplicates |-> e.duplicates]
  <1>1. Await(p, stored) /\ e.op = "clear" /\ UNCHANGED unsubscribed
    BY DEF ClearSnapshots
  <1>2. Sound(e, unsubscribed)
    BY AudienceParts
  <1> HIDE DEF e
  <1>3. /\ stored.op = "store" /\ stored.optedOut = e.optedOut /\ stored.kept = e.kept
        /\ stored.recipients = e.recipients /\ stored.excluded = e.excluded
        /\ stored.eligible = e.eligible /\ stored.duplicates = e.duplicates
    OBVIOUS
  <1> HIDE DEF stored
  <1>4. Sound(stored, unsubscribed)
    <2>1. Accounted(e) /\ \A r \in e.recipients : r.mail \notin e.optedOut
      BY <1>1, <1>2 DEF Sound
    <2>2. Accounted(stored)
      BY <1>3, <2>1, Zenon DEF Accounted
    <2> QED
      BY <1>3, <2>1, <2>2 DEF Sound
  <1> QED
    BY <1>1, <1>4, AwaitInv

LEMMA AskedInv ==
  ASSUME AudienceInv, NEW p \in Analysts,
         \/ \E s : deleteSegment(p, s) \/ setCampaignSegment(p, s)
         \/ \E language : previewAudience(p, language)
         \/ DeleteCommit(p) \/ ChooseCommit(p) \/ snapshotCampaignAudience(p) \/ previewSegment(p)
         \/ Dismiss(p) \/ StoreSnapshot(p)
  PROVE  AudienceInv'
  <1>1. UNCHANGED unsubscribed
    BY DEF deleteSegment, setCampaignSegment, previewAudience, DeleteCommit, ChooseCommit,
           snapshotCampaignAudience, previewSegment, Dismiss, StoreSnapshot
  <1>2. \/ \E op \in {"none", "delete", "choose", "rules"} : \E e : e.op = op /\ Await(p, e)
        \/ \E e : e.op = "companies" /\ e.optedOut = unsubscribed /\ Await(p, e)
    <2>1. ASSUME NEW s, deleteSegment(p, s) PROVE Await(p, [op |-> "delete", segment |-> s])
      BY <2>1 DEF deleteSegment
    <2>2. ASSUME NEW s, setCampaignSegment(p, s) PROVE Await(p, [op |-> "choose", segment |-> s])
      BY <2>2 DEF setCampaignSegment
    <2>3. ASSUME NEW language, previewAudience(p, language)
          PROVE  Await(p, [op |-> "companies", rules |-> draft, language |-> language,
                           letter |-> FALSE, at |-> steps, optedOut |-> unsubscribed])
      BY <2>3 DEF previewAudience
    <2>4. ASSUME DeleteCommit(p) \/ ChooseCommit(p) \/ Dismiss(p) \/ StoreSnapshot(p)
          PROVE  Await(p, NoErrand)
      BY <2>4 DEF DeleteCommit, ChooseCommit, Dismiss, StoreSnapshot
    <2>5. ASSUME snapshotCampaignAudience(p) PROVE Await(p, [op |-> "rules", segment |-> letter.segment])
      BY <2>5 DEF snapshotCampaignAudience
    <2>6. ASSUME previewSegment(p)
          PROVE  \/ Await(p, NoErrand)
                 \/ Await(p, [op |-> "companies", rules |-> segments[errand[p].segment], language |-> "HE",
                              letter |-> TRUE, at |-> steps, optedOut |-> unsubscribed])
      BY <2>6 DEF previewSegment
    <2>7. NoErrand.op = "none"
      BY DEF NoErrand
    <2>8. ASSUME NEW s PROVE [op |-> "delete", segment |-> s].op = "delete"
                             /\ [op |-> "choose", segment |-> s].op = "choose"
                             /\ [op |-> "rules", segment |-> s].op = "rules"
      OBVIOUS
    <2>9. ASSUME NEW d, NEW language, NEW l, NEW t
          PROVE  LET e == [op |-> "companies", rules |-> d, language |-> language,
                           letter |-> l, at |-> t, optedOut |-> unsubscribed]
                 IN  e.op = "companies" /\ e.optedOut = unsubscribed
      OBVIOUS
    <2> QED
      BY <2>1, <2>2, <2>3, <2>4, <2>5, <2>6, <2>7, <2>8, <2>9
  <1>3. ASSUME NEW e, Await(p, e), e.op \in {"none", "delete", "choose", "rules"}
        PROVE  AudienceInv'
    <2>1. Sound(e, unsubscribed)
      BY <1>3 DEF Sound
    <2> QED
      BY <1>1, <1>3, <2>1, AwaitInv
  <1>4. ASSUME NEW e, Await(p, e), e.op = "companies", e.optedOut = unsubscribed
        PROVE  AudienceInv'
    <2>1. Sound(e, unsubscribed)
      BY <1>4 DEF Sound
    <2> QED
      BY <1>1, <1>4, <2>1, AwaitInv
  <1> QED
    BY <1>2, <1>3, <1>4

LEMMA AudienceStep == AudienceInv /\ [SegmentsNext]_rulesVars => AudienceInv'
  <1> SUFFICES ASSUME AudienceInv, [SegmentsNext]_rulesVars PROVE AudienceInv'
    OBVIOUS
  <1>1. \A d : Redraft(d) => UNCHANGED <<errand, unsubscribed>>
    BY DEF Redraft
  <1>2. \A s, d : Store(s, d) => UNCHANGED <<errand, unsubscribed>>
    BY DEF Store
  <1>3. CASE \/ AddCondition \/ AddGroup
             \/ \E c : RemoveCondition(c) \/ \E e : ChangeCondition(c, e)
             \/ \E g : RemoveGroup(g) \/ \E h : ChangeGroup(g, h)
             \/ \E companies, contacts : Include(companies, contacts)
             \/ \E s : Open(s) \/ createSegment(s) \/ updateSegment(s) \/ \E t : duplicateSegment(s, t)
    <2>1. UNCHANGED <<errand, unsubscribed>>
      BY <1>1, <1>2, <1>3 DEF AddCondition, AddGroup, RemoveCondition, ChangeCondition, RemoveGroup, ChangeGroup,
                              Include, Open, createSegment, updateSegment, duplicateSegment
    <2> QED
      BY <2>1, OthersInv
  <1>4. CASE \/ \E m : OptOut(m) \/ \E language, consent : DecideAddress(m, language, consent)
             \/ \E w : MirrorChanges(w)
             \/ \E status : LetterMoves(status)
             \/ UNCHANGED rulesVars
    <2>1. UNCHANGED errand /\ unsubscribed \subseteq unsubscribed'
      BY <1>4 DEF OptOut, DecideAddress, MirrorChanges, LetterMoves, rulesVars
    <2> QED
      BY <2>1, OthersInv
  <1>5. ASSUME NEW p \in Analysts,
               \/ \E s \in SegmentIds : deleteSegment(p, s)
               \/ \E s \in SegmentIds \cup {NoAudience} : setCampaignSegment(p, s)
               \/ \E language \in {"ANY", "HE"} : previewAudience(p, language)
               \/ DeleteCommit(p) \/ ChooseCommit(p)
               \/ snapshotCampaignAudience(p) \/ previewSegment(p)
               \/ ReadCompanies(p) \/ ReadContacts(p) \/ resolveAudience(p) \/ Dismiss(p)
               \/ ClearSnapshots(p) \/ StoreSnapshot(p)
        PROVE  AudienceInv'
    BY <1>5, AskedInv, ReadingInv, ResolveInv, AnsweredInv
  <1> QED
    BY <1>3, <1>4, <1>5 DEF SegmentsNext

(* The inductive invariant of audiences: opt-outs known at the question are  *)
(* known while it is answered, and every record is read once.                *)
THEOREM AudienceInvariant == SegmentsSpec => []AudienceInv
  <1>1. SegmentsInit => AudienceInv
    <2> SUFFICES ASSUME SegmentsInit PROVE AudienceInv
      OBVIOUS
    <2>1. errand = [p \in Analysts |-> NoErrand]
      BY DEF SegmentsInit
    <2>2. \A p \in Analysts : Sound(errand[p], unsubscribed)
      BY <2>1 DEF Sound, NoErrand
    <2> QED
      BY <2>1, <2>2, AudienceParts
  <1> QED
    BY <1>1, AudienceStep, PTL DEF SegmentsSpec

(* For any CRM, rules and staff, whatever changes while an audience is       *)
(* computed: every record the rules selected is a source of a recipient or   *)
(* an exclusion, the numbers add up, and nobody who had opted out is in it.  *)
THEOREM NobodyIsLost == SegmentsSpec => []AnswersAccountForAll
  <1>1. AudienceInv => AnswersAccountForAll
    BY DEF AudienceInv
  <1> QED
    BY AudienceInvariant, <1>1, PTL

(***************************************************************************)
(* Segments: what rules mean.                                               *)
(***************************************************************************)
\* Of the fields of companies, two are compared with values.
LEMMA ComparedFields ==
  ASSUME NEW c, parseCondition(c), c.operator = "IS", ScopeOf(c) = "COMPANY"
  PROVE  c.field \in {"company.classification", "company.status"}
  <1> DEFINE f == findField[c.field]
  <1>1. f \in SEGMENT_FIELDS /\ f.key = c.field
    BY DEF parseCondition, Keys, findField
  <1>2. f.scope = "COMPANY" /\ "IS" \in f.operators
    BY DEF parseCondition, ScopeOf
  <1> HIDE DEF f
  <1> QED
    BY <1>1, <1>2 DEF SEGMENT_FIELDS

LEMMA OppositesDivideHolds == OppositesDivide
  <1> SUFFICES ASSUME NEW c \in Offered, parseCondition(c), c.operator = "IS", ScopeOf(c) = "COMPANY", NEW entry
               PROVE  companyClause(c, entry) # companyClause([c EXCEPT !.operator = "IS_NOT"], entry)
    BY DEF OppositesDivide
  <1> DEFINE b == [c EXCEPT !.operator = "IS_NOT"]
  <1>1. b.field = c.field /\ b.operator = "IS_NOT" /\ b.accepts = c.accepts
    BY BuilderAssumption DEF IsCondition
  <1> HIDE DEF b
  <1>2. c.field \in {"company.classification", "company.status"}
    BY ComparedFields
  <1>3. \A value : Answers(c, value) <=> value \in c.accepts
    BY DEF Answers
  <1>4. \A value : Answers(b, value) <=> value \notin c.accepts
    BY <1>1 DEF Answers
  <1>5. CASE c.field = "company.classification"
    <2>1. companyClause(c, entry) <=> Answers(c, entry.label)
      BY <1>5 DEF companyClause
    <2>2. companyClause(b, entry) <=> Answers(b, entry.label)
      BY <1>1, <1>5 DEF companyClause
    <2> QED
      BY <1>3, <1>4, <2>1, <2>2 DEF b, companyClause
  <1>6. CASE c.field = "company.status"
    <2>1. companyClause(c, entry) <=> Answers(c, entry.status)
      BY <1>6 DEF companyClause
    <2>2. companyClause(b, entry) <=> Answers(b, entry.status)
      BY <1>1, <1>6 DEF companyClause
    <2> QED
      BY <1>3, <1>4, <2>1, <2>2 DEF b, companyClause
  <1> QED
    BY <1>2, <1>5, <1>6

\* What the conditions of a definition ask of a product, with one left out.
LEMMA FewerProductRules ==
  ASSUME NEW cs, NEW c, NEW owned, NEW now, productClauseAll(cs, owned, now)
  PROVE  productClauseAll(cs \ {c}, owned, now)
  BY Zenon DEF productClauseAll

LEMMA FewerRulesKeep ==
  ASSUME NEW d, NEW e, e.groups \subseteq d.groups,
         (e.conditions = d.conditions) \/ \E c : e.conditions = d.conditions \ {c}
  PROVE  /\ \A entry, now : buildCompanyWhere(d, entry, now) => buildCompanyWhere(e, entry, now)
         /\ \A entry : buildContactWhere(d, entry) => buildContactWhere(e, entry)
         /\ hasCompanyConstraint(e) => hasCompanyConstraint(d)
  <1>1. \A scope : /\ About(e.conditions, scope) \subseteq About(d.conditions, scope)
                   /\ GroupsAbout(e, scope) \subseteq GroupsAbout(d, scope)
    BY DEF About, GroupsAbout
  <1>2. \A entry, now : productClauseAll(About(d.conditions, "PRODUCT"), entry.owned, now)
                        => productClauseAll(About(e.conditions, "PRODUCT"), entry.owned, now)
    <2>1. CASE e.conditions = d.conditions
      BY <2>1
    <2>2. ASSUME NEW c, e.conditions = d.conditions \ {c}
          PROVE  \A entry, now : productClauseAll(About(d.conditions, "PRODUCT"), entry.owned, now)
                                 => productClauseAll(About(e.conditions, "PRODUCT"), entry.owned, now)
      <3>1. About(e.conditions, "PRODUCT") = About(d.conditions, "PRODUCT") \ {c}
        BY <2>2 DEF About
      <3>2. ASSUME NEW entry, NEW now, productClauseAll(About(d.conditions, "PRODUCT"), entry.owned, now)
            PROVE  productClauseAll(About(e.conditions, "PRODUCT"), entry.owned, now)
        <4> DEFINE cs == About(d.conditions, "PRODUCT")
        <4>1. productClauseAll(cs \ {c}, entry.owned, now)
          <5> HIDE DEF cs
          <5>1. productClauseAll(cs, entry.owned, now)
            BY <3>2 DEF cs
          <5> QED
            BY <5>1, FewerProductRules
        <4> QED
          BY <3>1, <4>1
      <3> QED
        BY <3>2
    <2> QED
      BY <2>1, <2>2
  <1>3. ASSUME NEW entry, NEW now, buildCompanyWhere(d, entry, now) PROVE buildCompanyWhere(e, entry, now)
    BY <1>1, <1>2, <1>3, Zenon DEF buildCompanyWhere
  <1>4. ASSUME NEW entry, buildContactWhere(d, entry) PROVE buildContactWhere(e, entry)
    BY <1>1, <1>4, Zenon DEF buildContactWhere
  <1>5. hasCompanyConstraint(e) => hasCompanyConstraint(d)
    BY DEF hasCompanyConstraint
  <1> QED
    BY <1>3, <1>4, <1>5

LEMMA MoreRulesSelectFewerHolds == ASSUME IsDefinition(draft) PROVE MoreRulesSelectFewer
  <1>1. ASSUME NEW e, e.groups \subseteq draft.groups,
               (e.conditions = draft.conditions) \/ \E c : e.conditions = draft.conditions \ {c}
        PROVE  ChosenCompanies(draft) \subseteq ChosenCompanies(e) /\ ChosenContacts(draft) \subseteq ChosenContacts(e)
    <2>1. /\ \A entry, now : buildCompanyWhere(draft, entry, now) => buildCompanyWhere(e, entry, now)
          /\ \A entry : buildContactWhere(draft, entry) => buildContactWhere(e, entry)
          /\ hasCompanyConstraint(e) => hasCompanyConstraint(draft)
      BY <1>1, FewerRulesKeep
    <2>2. ChosenCompanies(draft) \subseteq ChosenCompanies(e)
      BY <2>1 DEF ChosenCompanies
    <2>3. ChosenContacts(draft) \subseteq ChosenContacts(e)
      BY <2>1, <2>2 DEF ChosenContacts
    <2> QED
      BY <2>2, <2>3
  <1>2. ASSUME NEW c \in draft.conditions
        PROVE  LET e == [draft EXCEPT !.conditions = @ \ {c}] IN
               ChosenCompanies(draft) \subseteq ChosenCompanies(e) /\ ChosenContacts(draft) \subseteq ChosenContacts(e)
    <2> DEFINE e == [draft EXCEPT !.conditions = @ \ {c}]
    <2>1. e.groups = draft.groups /\ e.conditions = draft.conditions \ {c}
      BY DEF IsDefinition
    <2> HIDE DEF e
    <2>2. ChosenCompanies(draft) \subseteq ChosenCompanies(e) /\ ChosenContacts(draft) \subseteq ChosenContacts(e)
      BY <1>1, <2>1
    <2> QED
      BY <2>2, Zenon DEF e
  <1>3. ASSUME NEW g \in draft.groups
        PROVE  LET e == [draft EXCEPT !.groups = @ \ {g}] IN
               ChosenCompanies(draft) \subseteq ChosenCompanies(e) /\ ChosenContacts(draft) \subseteq ChosenContacts(e)
    <2> DEFINE e == [draft EXCEPT !.groups = @ \ {g}]
    <2>1. e.groups \subseteq draft.groups /\ e.conditions = draft.conditions
      BY DEF IsDefinition
    <2> HIDE DEF e
    <2>2. ChosenCompanies(draft) \subseteq ChosenCompanies(e) /\ ChosenContacts(draft) \subseteq ChosenContacts(e)
      BY <1>1, <2>1
    <2> QED
      BY <2>2, Zenon DEF e
  <1> QED
    BY <1>2, <1>3 DEF MoreRulesSelectFewer

LEMMA OneProductAnswersAllHolds == OneProductAnswersAll
  <1> DEFINE asked == {c \in About(draft.conditions, "PRODUCT") : ~Negates(c)}
             Owner(c) == \E p \in crm.company[c].owned : \A r \in asked : ownedProductFilter(r, p, Now)
  <1>1. ASSUME asked # {}, NEW c \in ChosenCompanies(draft) PROVE Owner(c)
    <2>1. productClauseAll(About(draft.conditions, "PRODUCT"), crm.company[c].owned, Now)
      BY <1>1 DEF ChosenCompanies, buildCompanyWhere
    <2> QED
      BY <1>1, <2>1 DEF productClauseAll
  <1>2. ASSUME asked # {}, NEW k \in ChosenContacts(draft) PROVE \E c \in crm.contact[k].links : Owner(c)
    <2>1. hasCompanyConstraint(draft)
      BY <1>2 DEF About, hasCompanyConstraint
    <2>2. PICK c \in crm.contact[k].links : c \in ChosenCompanies(draft)
      BY <1>2, <2>1 DEF ChosenContacts
    <2> QED
      BY <1>1, <1>2, <2>2
  <1> QED
    BY <1>1, <1>2 DEF OneProductAnswersAll

LEMMA ContactsComeWithTheirCompanyHolds == ContactsComeWithTheirCompany
  <1>1. ASSUME hasCompanyConstraint(draft), NEW k \in ChosenContacts(draft)
        PROVE  \E c \in crm.contact[k].links : buildCompanyWhere(draft, crm.company[c], Now)
    BY <1>1 DEF ChosenContacts, ChosenCompanies
  <1>2. ASSUME ~ hasCompanyConstraint(draft), NEW entry PROVE buildCompanyWhere(draft, entry, Now)
    <2>1. \A scope \in {"COMPANY", "PRODUCT"} : About(draft.conditions, scope) = {} /\ GroupsAbout(draft, scope) = {}
      BY <1>2 DEF hasCompanyConstraint, About, GroupsAbout
    <2>2. productClauseAll({}, entry.owned, Now)
      BY DEF productClauseAll
    <2> QED
      BY <2>1, <2>2 DEF buildCompanyWhere
  <1> QED
    BY <1>1, <1>2 DEF ContactsComeWithTheirCompany

LEMMA RulesMean == ASSUME RulesAreWhole PROVE RulesMeanWhatTheySay
  BY MoreRulesSelectFewerHolds, OneProductAnswersAllHolds, ContactsComeWithTheirCompanyHolds, OppositesDivideHolds
  DEF RulesMeanWhatTheySay, RulesAreWhole

LEMMA DefinitionEdits ==
  ASSUME NEW d, IsDefinition(d), NEW v, NEW w
  PROVE  /\ IsDefinition([d EXCEPT !.conditions = v]) /\ IsDefinition([d EXCEPT !.groups = v])
         /\ IsDefinition([d EXCEPT !.companyEmails = v, !.contactEmails = w])
  <1>1. IsDefinition([d EXCEPT !.conditions = v]) /\ IsDefinition([d EXCEPT !.groups = v])
    BY DEF IsDefinition
  <1> DEFINE e == [d EXCEPT !.companyEmails = v]
  <1>2. IsDefinition(e)
    BY DEF IsDefinition
  <1>3. [d EXCEPT !.companyEmails = v, !.contactEmails = w] = [e EXCEPT !.contactEmails = w]
    OBVIOUS
  <1> HIDE DEF e
  <1>4. IsDefinition([e EXCEPT !.contactEmails = w])
    BY <1>2 DEF IsDefinition
  <1> QED
    BY <1>1, <1>3, <1>4

LEMMA RulesAreWholeFirst == ASSUME SegmentsInit PROVE RulesAreWhole
  <1>1. draft \in Openings \cup {emptySegmentDefinition}
    BY DEF SegmentsInit
  <1>2. IsDefinition(draft)
    BY <1>1, BuilderAssumption DEF emptySegmentDefinition, IsDefinition
  <1>3. PICK s \in SegmentIds :
          segments = [[t \in SegmentIds |-> NoRules] EXCEPT ![s] = IF draft \in Openings THEN draft ELSE NoRules]
    BY DEF SegmentsInit
  <1>4. segments = [t \in SegmentIds |-> segments[t]]
    BY <1>3
  <1>5. \A t \in SegmentIds : segments[t] = NoRules \/ segments[t] = draft
    BY <1>3
  <1> QED
    BY <1>2, <1>4, <1>5 DEF RulesAreWhole

LEMMA Redrafted == ASSUME RulesAreWhole, NEW d, IsDefinition(d), Redraft(d) PROVE RulesAreWhole'
  BY DEF Redraft, RulesAreWhole

LEMMA Restored ==
  ASSUME RulesAreWhole, UNCHANGED draft, NEW s, NEW d, d = NoRules \/ IsDefinition(d),
         segments' = [segments EXCEPT ![s] = d]
  PROVE  RulesAreWhole'
  BY DEF RulesAreWhole

LEMMA BuilderKeepsRules ==
  ASSUME RulesAreWhole,
         \/ AddCondition \/ AddGroup
         \/ \E c \in draft.conditions : RemoveCondition(c) \/ \E e \in Offered : ChangeCondition(c, e)
         \/ \E g \in draft.groups : RemoveGroup(g) \/ \E h \in GroupEdits(g) : ChangeGroup(g, h)
         \/ \E companies, contacts \in BOOLEAN : Include(companies, contacts)
         \/ \E s \in SegmentIds : Open(s)
  PROVE  RulesAreWhole'
  <1>0. IsDefinition(draft)
    BY DEF RulesAreWhole
  <1>1. ASSUME AddCondition \/ \E c \in draft.conditions : RemoveCondition(c) \/ \E e \in Offered : ChangeCondition(c, e)
        PROVE  RulesAreWhole'
    <2>1. PICK cs : Redraft([draft EXCEPT !.conditions = cs])
      BY <1>1 DEF AddCondition, RemoveCondition, ChangeCondition
    <2> DEFINE d == [draft EXCEPT !.conditions = cs]
    <2>2. IsDefinition(d)
      BY <1>0, DefinitionEdits
    <2> QED
      BY <2>1, <2>2, Redrafted
  <1>2. ASSUME AddGroup \/ \E g \in draft.groups : RemoveGroup(g) \/ \E h \in GroupEdits(g) : ChangeGroup(g, h)
        PROVE  RulesAreWhole'
    <2>1. PICK gs : Redraft([draft EXCEPT !.groups = gs])
      BY <1>2 DEF AddGroup, RemoveGroup, ChangeGroup
    <2> DEFINE d == [draft EXCEPT !.groups = gs]
    <2>2. IsDefinition(d)
      BY <1>0, DefinitionEdits
    <2> QED
      BY <2>1, <2>2, Redrafted
  <1>3. ASSUME NEW companies, NEW contacts, Include(companies, contacts) PROVE RulesAreWhole'
    <2> DEFINE d == [draft EXCEPT !.companyEmails = companies, !.contactEmails = contacts]
    <2>1. Redraft(d)
      BY <1>3 DEF Include
    <2>2. IsDefinition(d)
      BY <1>0, DefinitionEdits
    <2> HIDE DEF d
    <2> QED
      BY <2>1, <2>2, Redrafted
  <1>4. ASSUME NEW s \in SegmentIds, Open(s) PROVE RulesAreWhole'
    <2>1. IsDefinition(segments[s]) /\ Redraft(segments[s])
      BY <1>4 DEF Open, RulesAreWhole
    <2> QED
      BY <2>1, Redrafted
  <1> QED
    BY <1>1, <1>2, <1>3, <1>4

LEMMA StoredRulesKeep ==
  ASSUME RulesAreWhole,
         \/ \E s \in SegmentIds : \/ createSegment(s) \/ updateSegment(s)
                                  \/ \E t \in SegmentIds : duplicateSegment(s, t)
         \/ \E p \in Analysts : DeleteCommit(p)
  PROVE  RulesAreWhole'
  <1>1. ASSUME NEW s \in SegmentIds, createSegment(s) \/ updateSegment(s) PROVE RulesAreWhole'
    <2>1. segments' = [segments EXCEPT ![s] = draft] /\ UNCHANGED draft /\ IsDefinition(draft)
      BY <1>1 DEF createSegment, updateSegment, Store, RulesAreWhole
    <2> QED
      BY <2>1, Restored
  <1>2. ASSUME NEW s \in SegmentIds, NEW t \in SegmentIds, duplicateSegment(s, t) PROVE RulesAreWhole'
    <2>1. segments' = [segments EXCEPT ![t] = segments[s]] /\ UNCHANGED draft /\ IsDefinition(segments[s])
      BY <1>2 DEF duplicateSegment, Store, RulesAreWhole
    <2> QED
      BY <2>1, Restored
  <1>3. ASSUME NEW p \in Analysts, DeleteCommit(p) PROVE RulesAreWhole'
    <2>1. segments' = [segments EXCEPT ![errand[p].segment] = NoRules] /\ UNCHANGED draft
      BY <1>3 DEF DeleteCommit
    <2> QED
      BY <2>1, Restored
  <1> QED
    BY <1>1, <1>2, <1>3

LEMMA RulesAreWholeNext == RulesAreWhole /\ [SegmentsNext]_rulesVars => RulesAreWhole'
  <1> SUFFICES ASSUME RulesAreWhole, [SegmentsNext]_rulesVars PROVE RulesAreWhole'
    OBVIOUS
  <1>1. ASSUME UNCHANGED <<draft, segments>> PROVE RulesAreWhole'
    BY <1>1 DEF RulesAreWhole
  <1>2. CASE UNCHANGED rulesVars
    BY <1>1, <1>2 DEF rulesVars
  <1>3. ASSUME NEW p \in Analysts,
               \/ \E s \in SegmentIds : deleteSegment(p, s)
               \/ \E s \in SegmentIds \cup {NoAudience} : setCampaignSegment(p, s)
               \/ \E language \in {"ANY", "HE"} : previewAudience(p, language)
               \/ ChooseCommit(p) \/ snapshotCampaignAudience(p) \/ previewSegment(p)
               \/ ReadCompanies(p) \/ ReadContacts(p) \/ resolveAudience(p) \/ Dismiss(p)
               \/ ClearSnapshots(p) \/ StoreSnapshot(p)
        PROVE  RulesAreWhole'
    BY <1>1, <1>3 DEF deleteSegment, setCampaignSegment, previewAudience, ChooseCommit, snapshotCampaignAudience,
       previewSegment, ReadCompanies, ReadContacts, resolveAudience, Dismiss, ClearSnapshots, StoreSnapshot
  <1>4. ASSUME \/ \E m \in Mails : \/ OptOut(m)
                                   \/ \E language \in {"HE", "UNKNOWN"}, consent \in {"UNKNOWN", "DENIED"} :
                                        DecideAddress(m, language, consent)
               \/ \E w \in Worlds : MirrorChanges(w)
               \/ \E status \in {"DRAFT", "SCHEDULED"} : LetterMoves(status)
        PROVE  RulesAreWhole'
    BY <1>1, <1>4 DEF OptOut, DecideAddress, MirrorChanges, LetterMoves
  <1> QED
    BY <1>2, <1>3, <1>4, BuilderKeepsRules, StoredRulesKeep, Zenon DEF SegmentsNext

(* What is in the builder, and what is stored, is a definition: conditions,  *)
(* groups and the kinds of address to include.                               *)
THEOREM RulesStayWhole == SegmentsSpec => []RulesAreWhole
  <1>1. SegmentsInit => RulesAreWhole
    BY RulesAreWholeFirst
  <1> QED
    BY <1>1, RulesAreWholeNext, PTL DEF SegmentsSpec

(* For any rules anybody puts together and any CRM: a rule more never        *)
(* selects a record more, the conditions on products are about one product,  *)
(* a contact comes with its company, and "is" and "is not" divide the        *)
(* companies.                                                                *)
THEOREM RulesMeanWhatIsSaid == SegmentsSpec => []RulesMeanWhatTheySay
  <1>1. RulesAreWhole => RulesMeanWhatTheySay
    BY RulesMean
  <1> QED
    BY <1>1, RulesStayWhole, PTL

(***************************************************************************)
(* Signing in: counting attempts.                                           *)
(***************************************************************************)
Tallies == [0..MaxMinutes -> Nat]

LEMMA MadeFinite ==
  ASSUME NEW f \in Tallies, NEW from \in Nat, NEW to \in Int, to <= MaxMinutes
  PROVE  IsFiniteSet(Made(f, from, to)) /\ Cardinality(Made(f, from, to)) \in Nat
  <1> USE SignInAssumption DEF Tallies
  <1> DEFINE parts == {{t} \X (1..f[t]) : t \in from..to}
             g == [t \in from..to |-> {t} \X (1..f[t])]
  <1>1. IsFiniteSet(from..to)
    BY FS_Interval
  <1>2. IsFiniteSet(parts)
    <2>1. g \in Surjection(from..to, parts)
      BY DEF Surjection
    <2> HIDE DEF g, parts
    <2> QED
      BY <1>1, <2>1, FS_Surjection
  <1>3. \A T \in parts : IsFiniteSet(T)
    <2>1. ASSUME NEW t \in from..to PROVE IsFiniteSet({t} \X (1..f[t]))
      <3>1. f[t] \in Int /\ 1 \in Int
        OBVIOUS
      <3>2. IsFiniteSet(1..f[t])
        BY <3>1, FS_Interval
      <3>3. IsFiniteSet({t})
        BY FS_Singleton
      <3> QED
        BY <3>2, <3>3, FS_Product
    <2> QED
      BY <2>1
  <1>4. Made(f, from, to) = UNION parts
    BY DEF Made
  <1> HIDE DEF parts
  <1> QED
    BY <1>2, <1>3, <1>4, FS_UNION, FS_CardinalityType

\* In a shorter time there are no more.
LEMMA MadeShrinks ==
  ASSUME NEW f \in Tallies, NEW from \in Nat, NEW to \in Int, to <= MaxMinutes,
         NEW from2 \in Nat, NEW to2 \in Int, to2 <= MaxMinutes,
         \A t \in from2..to2 : t \in from..to \/ f[t] = 0
  PROVE  Cardinality(Made(f, from2, to2)) <= Cardinality(Made(f, from, to))
  <1> USE SignInAssumption DEF Tallies
  <1>1. ASSUME NEW x \in Made(f, from2, to2) PROVE x \in Made(f, from, to)
    <2>1. PICK t \in from2..to2 : x \in {t} \X (1..f[t])
      BY DEF Made
    <2>2. f[t] # 0
      BY <2>1
    <2>3. t \in from..to
      BY <2>2
    <2> QED
      BY <2>1, <2>3 DEF Made
  <1>2. Made(f, from2, to2) \subseteq Made(f, from, to)
    BY <1>1
  <1> QED
    BY <1>2, MadeFinite, FS_Subset

\* The attempts of a time are at most those of its two parts.
LEMMA MadeSplits ==
  ASSUME NEW f \in Tallies, NEW from \in Nat, NEW to \in Int, to <= MaxMinutes,
         NEW mid \in Nat, from <= mid, mid <= to + 1
  PROVE  Cardinality(Made(f, from, to)) <= Cardinality(Made(f, from, mid - 1)) + Cardinality(Made(f, mid, to))
  <1> USE SignInAssumption DEF Tallies
  <1>1. Made(f, from, to) \subseteq Made(f, from, mid - 1) \cup Made(f, mid, to)
    <2>1. ASSUME NEW x \in Made(f, from, to) PROVE x \in Made(f, from, mid - 1) \cup Made(f, mid, to)
      <3>1. PICK t \in from..to : x \in {t} \X (1..f[t])
        BY DEF Made
      <3>2. t \in from..(mid - 1) \/ t \in mid..to
        OBVIOUS
      <3> QED
        BY <3>1, <3>2 DEF Made
    <2> QED
      BY <2>1
  <1>2. /\ IsFiniteSet(Made(f, from, mid - 1)) /\ Cardinality(Made(f, from, mid - 1)) \in Nat
        /\ IsFiniteSet(Made(f, mid, to)) /\ Cardinality(Made(f, mid, to)) \in Nat
        /\ Cardinality(Made(f, from, to)) \in Nat
    <2>1. mid - 1 \in Int /\ mid - 1 <= MaxMinutes
      OBVIOUS
    <2> QED
      BY <2>1, MadeFinite
  <1>3. /\ IsFiniteSet(Made(f, from, mid - 1) \cup Made(f, mid, to))
        /\ Cardinality(Made(f, from, mid - 1) \cup Made(f, mid, to))
             <= Cardinality(Made(f, from, mid - 1)) + Cardinality(Made(f, mid, to))
    <2> DEFINE S == Made(f, from, mid - 1)
               T == Made(f, mid, to)
    <2>1. IsFiniteSet(S) /\ IsFiniteSet(T) /\ Cardinality(S) \in Nat /\ Cardinality(T) \in Nat
      BY <1>2
    <2> HIDE DEF S, T
    <2>2. IsFiniteSet(S \cup T) /\ Cardinality(S \cup T) = Cardinality(S) + Cardinality(T) - Cardinality(S \cap T)
      BY <2>1, FS_Union
    <2>3. IsFiniteSet(S \cap T)
      BY <2>1, FS_Intersection
    <2>4. Cardinality(S \cap T) \in Nat
      BY <2>3, FS_CardinalityType
    <2>5. Cardinality(S \cup T) <= Cardinality(S) + Cardinality(T)
      BY <2>1, <2>2, <2>4
    <2> QED
      BY <2>2, <2>5 DEF S, T
  <1>4. Cardinality(Made(f, from, to)) <= Cardinality(Made(f, from, mid - 1) \cup Made(f, mid, to))
    BY <1>1, <1>3, FS_Subset
  <1>5. Cardinality(Made(f, from, mid - 1) \cup Made(f, mid, to)) \in Nat
    BY <1>3, FS_CardinalityType
  <1> QED
    BY <1>2, <1>3, <1>4, <1>5

\* One attempt more counts as one.
LEMMA MadeOneMore ==
  ASSUME NEW f \in Tallies, NEW from \in Nat, NEW to \in Int, to <= MaxMinutes,
         NEW now \in from..to
  PROVE  LET g == [f EXCEPT ![now] = @ + 1] IN
         Cardinality(Made(g, from, to)) = Cardinality(Made(f, from, to)) + 1
  <1> USE SignInAssumption DEF Tallies
  <1> DEFINE g == [f EXCEPT ![now] = @ + 1]
             new == <<now, f[now] + 1>>
  <1>1. now \in 0..MaxMinutes /\ g \in [0..MaxMinutes -> Nat] /\ g[now] = f[now] + 1 /\ \A t \in (0..MaxMinutes) \ {now} : g[t] = f[t]
    OBVIOUS
  <1> HIDE DEF g
  <1>2. ASSUME NEW x \in Made(g, from, to) PROVE x \in Made(f, from, to) \cup {new}
    <2>1. PICK t \in from..to : x \in {t} \X (1..g[t])
      BY DEF Made
    <2>2. PICK k \in 1..g[t] : x = <<t, k>>
      BY <2>1
    <2>3. CASE k \in 1..f[t]
      <3>1. x \in {t} \X (1..f[t])
        BY <2>2, <2>3
      <3> QED
        BY <3>1 DEF Made
    <2>4. CASE k \notin 1..f[t]
      <3>1. t \in 0..MaxMinutes /\ f[t] \in Nat
        OBVIOUS
      <3>2. t = now
        BY <1>1, <2>2, <2>4, <3>1
      <3>3. k = f[now] + 1
        BY <1>1, <2>2, <2>4, <3>1, <3>2
      <3> QED
        BY <2>2, <3>2, <3>3
    <2> QED
      BY <2>3, <2>4
  <1>3. ASSUME NEW x \in Made(f, from, to) PROVE x \in Made(g, from, to)
    <2>1. PICK t \in from..to : x \in {t} \X (1..f[t])
      BY DEF Made
    <2>2. 1..f[t] \subseteq 1..g[t]
      <3>1. t \in 0..MaxMinutes
        OBVIOUS
      <3>2. f[t] \in Nat /\ g[t] \in Nat /\ f[t] <= g[t]
        <4>1. CASE t = now
          BY <1>1, <3>1, <4>1
        <4>2. CASE t # now
          BY <1>1, <3>1, <4>2
        <4> QED
          BY <4>1, <4>2
      <3> QED
        BY <3>2
    <2>3. x \in {t} \X (1..g[t])
      BY <2>1, <2>2
    <2> QED
      BY <2>3 DEF Made
  <1>4. new \in Made(g, from, to)
    <2>1. f[now] + 1 \in 1..g[now]
      BY <1>1
    <2>2. new \in {now} \X (1..g[now])
      BY <2>1
    <2> QED
      BY <2>2 DEF Made
  <1>5. new \notin Made(f, from, to)
    <2> SUFFICES ASSUME new \in Made(f, from, to) PROVE FALSE
      OBVIOUS
    <2>1. PICK t \in from..to : new \in {t} \X (1..f[t])
      BY DEF Made
    <2>2. t = now /\ f[now] + 1 \in 1..f[now]
      BY <2>1
    <2> QED
      BY <1>1, <2>2
  <1> HIDE DEF new
  <1>6. Made(g, from, to) = Made(f, from, to) \cup {new}
    BY <1>2, <1>3, <1>4
  <1>7. IsFiniteSet(Made(f, from, to))
    BY MadeFinite
  <1>8. Cardinality(Made(f, from, to) \cup {new}) = Cardinality(Made(f, from, to)) + 1
    BY <1>5, <1>7, FS_AddElement
  <1> QED
    BY <1>6, <1>8 DEF g

LEMMA MadeNone ==
  ASSUME NEW f \in Tallies, NEW from \in Nat, NEW to \in Int, to <= MaxMinutes,
         \A t \in from..to : f[t] = 0
  PROVE  Cardinality(Made(f, from, to)) = 0
  <1> USE SignInAssumption DEF Tallies
  <1>1. ASSUME NEW x \in Made(f, from, to) PROVE FALSE
    <2>1. PICK t \in from..to : x \in {t} \X (1..f[t])
      BY DEF Made
    <2>2. f[t] = 0
      OBVIOUS
    <2> QED
      BY <2>1, <2>2
  <1>2. Made(f, from, to) = {}
    BY <1>1
  <1> QED
    BY <1>2, FS_EmptySet

(***************************************************************************)
(* Signing in: one identity's window.                                       *)
(***************************************************************************)
OpenAt(f, b, m, last) ==
    /\ Cardinality(Made(f, b.since, m)) = AtMost(b.count, MAX_ATTEMPTS)
    /\ \A t \in 0..MaxMinutes : t > last => f[t] = 0
    /\ b.since > 0 => Cardinality(Made(f, BackFrom(b.since, WINDOW - 1), b.since - 1)) <= MAX_ATTEMPTS
ClosedAt(f, m) == f[m] = 0 /\ Cardinality(Made(f, BackFrom(m, WINDOW - 1), m)) <= MAX_ATTEMPTS
WindowAt(f, b, m, last) ==
    /\ \A t \in 0..MaxMinutes : t > m => f[t] = 0
    /\ b.count > 0 => OpenAt(f, b, m, last)
    /\ b.count = 0 => ClosedAt(f, m)
Buckets(m) == [count : 0..(MAX_ATTEMPTS + 1), since : 0..m]

LEMMA WindowsAre ==
  /\ WindowsCount <=> \A i \in Identities : WindowAt(allowed[i], bucket[i], minute, LastOf(bucket[i]))
  /\ WindowsCount' <=> \A i \in Identities : WindowAt(allowed'[i], bucket'[i], minute', LastOf(bucket[i])')
  BY DEF WindowsCount, WindowAt, OpenAt, ClosedAt, NothingAhead, WindowOpen, WindowClosed, Checks, Back, BackFrom

LEMMA LastIs ==
  ASSUME NEW b, b.since \in Nat, minute \in Nat
  PROVE  /\ LastOf(b) \in Nat /\ b.since <= LastOf(b)
         /\ LastOf(b) >= b.since + WINDOW - 1 /\ LastOf(b) <= b.since + WINDOW
         /\ Expired(b) <=> minute > LastOf(b)
  <1>1. CASE hosted
    BY <1>1, SignInAssumption DEF LastOf, Expired
  <1>2. CASE ~hosted
    BY <1>2, SignInAssumption DEF LastOf, Expired
  <1> QED
    BY <1>1, <1>2

\* An attempt opens a window where there is none, or the last one is over.
LEMMA WindowOpens ==
  ASSUME NEW m \in 0..MaxMinutes, NEW f \in Tallies, NEW b \in Buckets(m), NEW last \in Nat,
         WindowAt(f, b, m, last), last >= b.since + WINDOW - 1, b.count = 0 \/ m > last,
         NEW next \in Nat, next >= m
  PROVE  LET g == [f EXCEPT ![m] = @ + 1] IN
         g \in Tallies /\ WindowAt(g, [count |-> 1, since |-> m], m, next)
  <1> DEFINE g == [f EXCEPT ![m] = @ + 1]
             back == BackFrom(m, WINDOW - 1)
             fresh == [count |-> 1, since |-> m]
  <1>1. MaxMinutes \in Nat /\ m \in Nat /\ m \in Int /\ m <= MaxMinutes /\ m - 1 \in Int /\ m - 1 <= MaxMinutes /\ MAX_ATTEMPTS \in Nat \ {0} /\ WINDOW \in Nat \ {0}
    BY SignInAssumption
  <1>2. f \in Tallies /\ g \in Tallies
    BY DEF Tallies
  <1>3. g[m] = f[m] + 1 /\ \A t \in (0..MaxMinutes) \ {m} : g[t] = f[t]
    BY <1>2 DEF Tallies
  <1>4. b.count \in 0..(MAX_ATTEMPTS + 1) /\ b.since \in 0..m /\ b.since \in Nat
    BY DEF Buckets
  <1>5. back \in Nat /\ back <= m /\ (back = 0 \/ back = m - (WINDOW - 1))
    BY <1>1 DEF BackFrom
  <1>6. f[m] = 0 /\ Cardinality(Made(f, back, m)) <= MAX_ATTEMPTS
    <2>1. CASE b.count = 0
      BY <2>1 DEF WindowAt, ClosedAt
    <2>2. CASE b.count # 0
      <3>1. b.count > 0 /\ m > last
        BY <1>4, <2>2
      <3>2. OpenAt(f, b, m, last)
        BY <3>1 DEF WindowAt
      <3>3. f[m] = 0
        BY <3>1, <3>2 DEF OpenAt
      <3>4. b.since <= back
        BY <1>1, <1>4, <3>1 DEF BackFrom
      <3>5. \A t \in back..m : t \in b.since..m
        BY <1>4, <1>5, <3>4
      <3>6. Cardinality(Made(f, back, m)) <= Cardinality(Made(f, b.since, m))
        BY <1>1, <1>2, <1>4, <1>5, <3>5, MadeShrinks
      <3>7. Cardinality(Made(f, b.since, m)) <= MAX_ATTEMPTS
        BY <1>1, <1>4, <3>2 DEF OpenAt, AtMost
      <3>8. Cardinality(Made(f, b.since, m)) \in Nat /\ Cardinality(Made(f, back, m)) \in Nat
        BY <1>1, <1>2, <1>4, <1>5, MadeFinite
      <3> QED
        BY <1>1, <3>3, <3>6, <3>7, <3>8
    <2> QED
      BY <2>1, <2>2
  <1> HIDE DEF back
  <1>7. Cardinality(Made(f, m, m)) = 0
    <2>1. \A t \in m..m : f[t] = 0
      BY <1>1, <1>6
    <2> QED
      BY <1>1, <1>2, <2>1, MadeNone
  <1>8. Cardinality(Made(g, m, m)) = 1
    <2>1. m \in m..m
      BY <1>1
    <2> QED
      BY <1>1, <1>2, <1>7, <2>1, MadeOneMore
  <1> HIDE DEF g
  <1>9. ASSUME m > 0 PROVE Cardinality(Made(g, back, m - 1)) <= MAX_ATTEMPTS
    <2>1. Made(g, back, m - 1) = Made(f, back, m - 1)
      <3>1. \A t \in back..(m - 1) : g[t] = f[t]
        BY <1>1, <1>3, <1>5
      <3> QED
        BY <3>1 DEF Made
    <2>2. Cardinality(Made(f, back, m - 1)) <= Cardinality(Made(f, back, m))
      <3>1. \A t \in back..(m - 1) : t \in back..m
        BY <1>1, <1>5
      <3> QED
        BY <1>1, <1>2, <1>5, <3>1, MadeShrinks
    <2>3. Cardinality(Made(f, back, m - 1)) \in Nat /\ Cardinality(Made(f, back, m)) \in Nat
      BY <1>1, <1>2, <1>5, MadeFinite
    <2> QED
      BY <1>1, <1>6, <2>1, <2>2, <2>3
  <1>10. \A t \in 0..MaxMinutes : t > m => g[t] = 0
    BY <1>1, <1>3 DEF WindowAt
  <1>11. fresh.count = 1 /\ fresh.since = m
    OBVIOUS
  <1> HIDE DEF fresh
  <1>12. AtMost(fresh.count, MAX_ATTEMPTS) = 1
    BY <1>1, <1>11 DEF AtMost
  <1>13. OpenAt(g, fresh, m, next)
    BY <1>1, <1>8, <1>9, <1>10, <1>11, <1>12 DEF OpenAt, back
  <1> QED
    BY <1>2, <1>10, <1>11, <1>13 DEF WindowAt, Tallies, g, fresh

\* In a window, an attempt counts in it as long as it is let through.
LEMMA WindowGoesOn ==
  ASSUME NEW m \in 0..MaxMinutes, NEW f \in Tallies, NEW b \in Buckets(m), NEW last \in Nat,
         WindowAt(f, b, m, last), b.count > 0, m <= last,
         NEW next \in Buckets(m), next.since = b.since, next.count = AtMost(b.count + 1, MAX_ATTEMPTS + 1)
  PROVE  /\ next.count > MAX_ATTEMPTS => WindowAt(f, next, m, last)
         /\ next.count <= MAX_ATTEMPTS =>
              LET g == [f EXCEPT ![m] = @ + 1] IN g \in Tallies /\ WindowAt(g, next, m, last)
  <1>1. MaxMinutes \in Nat /\ m \in Nat /\ m \in Int /\ m <= MaxMinutes /\ MAX_ATTEMPTS \in Nat \ {0} /\ WINDOW \in Nat \ {0}
    BY SignInAssumption
  <1>2. b.count \in 0..(MAX_ATTEMPTS + 1) /\ b.since \in 0..m /\ b.since \in Nat
    BY DEF Buckets
  <1>3. OpenAt(f, b, m, last) /\ \A t \in 0..MaxMinutes : t > m => f[t] = 0
    BY DEF WindowAt
  <1>4. next.count > 0 /\ next.count # 0 /\ next.count \in Nat
    BY <1>1, <1>2 DEF AtMost
  <1>5. CASE next.count > MAX_ATTEMPTS
    <2>1. AtMost(next.count, MAX_ATTEMPTS) = AtMost(b.count, MAX_ATTEMPTS)
      BY <1>1, <1>2, <1>5 DEF AtMost
    <2>2. OpenAt(f, next, m, last)
      BY <1>3, <2>1 DEF OpenAt
    <2>3. WindowAt(f, next, m, last)
      BY <1>3, <1>4, <2>2 DEF WindowAt
    <2>4. ~(next.count <= MAX_ATTEMPTS)
      BY <1>1, <1>4, <1>5
    <2> QED
      BY <2>3, <2>4
  <1>6. CASE next.count <= MAX_ATTEMPTS
    <2> DEFINE g == [f EXCEPT ![m] = @ + 1]
    <2>1. g \in Tallies /\ \A t \in (0..MaxMinutes) \ {m} : g[t] = f[t]
      BY <1>1 DEF Tallies
    <2>2. AtMost(next.count, MAX_ATTEMPTS) = AtMost(b.count, MAX_ATTEMPTS) + 1
      BY <1>1, <1>2, <1>6 DEF AtMost
    <2>3. Cardinality(Made(g, b.since, m)) = Cardinality(Made(f, b.since, m)) + 1
      <3>1. m \in b.since..m
        BY <1>1, <1>2
      <3> QED
        BY <1>1, <1>2, <3>1, MadeOneMore
    <2> HIDE DEF g
    <2>4. Made(g, BackFrom(b.since, WINDOW - 1), b.since - 1) = Made(f, BackFrom(b.since, WINDOW - 1), b.since - 1)
      <3>1. BackFrom(b.since, WINDOW - 1) \in Nat
        BY <1>1, <1>2 DEF BackFrom
      <3>2. \A t \in BackFrom(b.since, WINDOW - 1)..(b.since - 1) : g[t] = f[t]
        BY <1>1, <1>2, <2>1, <3>1
      <3> QED
        BY <3>2 DEF Made
    <2>5. \A t \in 0..MaxMinutes : (t > m => g[t] = 0) /\ (t > last => g[t] = 0)
      BY <1>1, <1>3, <2>1 DEF OpenAt
    <2>6. OpenAt(g, next, m, last)
      BY <1>3, <2>2, <2>3, <2>4, <2>5 DEF OpenAt
    <2>7. WindowAt(g, next, m, last)
      BY <1>4, <2>5, <2>6 DEF WindowAt
    <2>8. ~(next.count > MAX_ATTEMPTS)
      BY <1>1, <1>4, <1>6
    <2> QED
      BY <2>1, <2>7, <2>8 DEF g
  <1> QED
    BY <1>5, <1>6

\* A row that is over may be deleted.
LEMMA WindowCloses ==
  ASSUME NEW m \in 0..MaxMinutes, NEW f \in Tallies, NEW b \in Buckets(m), NEW last \in Nat,
         WindowAt(f, b, m, last), b.count > 0, m > last, last >= b.since + WINDOW - 1, NEW next
  PROVE  WindowAt(f, Unused, m, next)
  <1> DEFINE back == BackFrom(m, WINDOW - 1)
  <1>1. MaxMinutes \in Nat /\ m \in Nat /\ m \in Int /\ m <= MaxMinutes /\ MAX_ATTEMPTS \in Nat \ {0} /\ WINDOW \in Nat \ {0}
    BY SignInAssumption
  <1>2. b.count \in 0..(MAX_ATTEMPTS + 1) /\ b.since \in 0..m /\ b.since \in Nat
    BY DEF Buckets
  <1>3. OpenAt(f, b, m, last) /\ \A t \in 0..MaxMinutes : t > m => f[t] = 0
    BY DEF WindowAt
  <1>4. f[m] = 0
    BY <1>1, <1>3 DEF OpenAt
  <1>5. back \in Nat /\ b.since <= back /\ back <= m
    BY <1>1, <1>2 DEF BackFrom
  <1> HIDE DEF back
  <1>6. Cardinality(Made(f, back, m)) <= Cardinality(Made(f, b.since, m))
    <2>1. \A t \in back..m : t \in b.since..m
      BY <1>1, <1>2, <1>5
    <2> QED
      BY <1>1, <1>2, <1>5, <2>1, MadeShrinks
  <1>7. Cardinality(Made(f, b.since, m)) <= MAX_ATTEMPTS
    BY <1>1, <1>2, <1>3 DEF OpenAt, AtMost
  <1>8. Cardinality(Made(f, b.since, m)) \in Nat /\ Cardinality(Made(f, back, m)) \in Nat
    BY <1>1, <1>2, <1>5, MadeFinite
  <1>9. ClosedAt(f, m)
    BY <1>1, <1>4, <1>6, <1>7, <1>8 DEF ClosedAt, back
  <1>10. Unused.count = 0
    BY DEF Unused
  <1> QED
    BY <1>3, <1>9, <1>10 DEF WindowAt

\* Nothing made since the last release.
LEMMA WindowResets ==
  ASSUME NEW m \in 0..MaxMinutes, NEW last
  PROVE  Never \in Tallies /\ WindowAt(Never, Unused, m, last)
  <1>1. MaxMinutes \in Nat /\ m \in Nat /\ m \in Int /\ m <= MaxMinutes /\ MAX_ATTEMPTS \in Nat \ {0} /\ WINDOW \in Nat \ {0}
    BY SignInAssumption
  <1>2. Never \in Tallies /\ \A t \in 0..MaxMinutes : Never[t] = 0
    BY DEF Never, Tallies
  <1>3. BackFrom(m, WINDOW - 1) \in Nat
    BY <1>1 DEF BackFrom
  <1>4. \A t \in BackFrom(m, WINDOW - 1)..m : Never[t] = 0
    BY <1>1, <1>2, <1>3
  <1>5. Cardinality(Made(Never, BackFrom(m, WINDOW - 1), m)) = 0
    BY <1>1, <1>2, <1>3, <1>4, MadeNone
  <1>6. Unused.count = 0
    BY DEF Unused
  <1> QED
    BY <1>1, <1>2, <1>5, <1>6 DEF WindowAt, ClosedAt

LEMMA WindowAges ==
  ASSUME NEW m \in 0..MaxMinutes, m < MaxMinutes, NEW f \in Tallies, NEW b \in Buckets(m), NEW last,
         WindowAt(f, b, m, last)
  PROVE  WindowAt(f, b, m + 1, last)
  <1>1. /\ MaxMinutes \in Nat /\ m \in Nat /\ m \in Int /\ m <= MaxMinutes /\ m + 1 \in Int /\ m + 1 <= MaxMinutes
        /\ MAX_ATTEMPTS \in Nat \ {0} /\ WINDOW \in Nat \ {0} /\ m + 1 \in 0..MaxMinutes
    BY SignInAssumption
  <1>2. b.count \in 0..(MAX_ATTEMPTS + 1) /\ b.since \in 0..m /\ b.since \in Nat
    BY DEF Buckets
  <1>3. f[m + 1] = 0 /\ \A t \in 0..MaxMinutes : t > m + 1 => f[t] = 0
    BY <1>1 DEF WindowAt
  <1>4. CASE b.count > 0
    <2>1. OpenAt(f, b, m, last)
      BY <1>4 DEF WindowAt
    <2>2. Made(f, b.since, m + 1) = Made(f, b.since, m)
      <3>1. ASSUME NEW x \in Made(f, b.since, m + 1) PROVE x \in Made(f, b.since, m)
        <4>1. PICK t \in b.since..(m + 1) : x \in {t} \X (1..f[t])
          BY DEF Made
        <4>2. t # m + 1
          <5>1. f[t] # 0
            BY <4>1
          <5> QED
            BY <1>3, <5>1
        <4>3. t \in b.since..m
          BY <1>1, <1>2, <4>2
        <4> QED
          BY <4>1, <4>3 DEF Made
      <3>2. ASSUME NEW x \in Made(f, b.since, m) PROVE x \in Made(f, b.since, m + 1)
        <4>1. PICK t \in b.since..m : x \in {t} \X (1..f[t])
          BY DEF Made
        <4>2. t \in b.since..(m + 1)
          BY <1>1, <1>2
        <4> QED
          BY <4>1, <4>2 DEF Made
      <3> QED
        BY <3>1, <3>2
    <2>3. OpenAt(f, b, m + 1, last)
      BY <2>1, <2>2 DEF OpenAt
    <2> QED
      BY <1>3, <1>4, <2>3 DEF WindowAt
  <1>5. CASE b.count = 0
    <2> DEFINE back == BackFrom(m, WINDOW - 1)
               next == BackFrom(m + 1, WINDOW - 1)
    <2>1. Cardinality(Made(f, back, m)) <= MAX_ATTEMPTS
      BY <1>5 DEF WindowAt, ClosedAt
    <2>2. back \in Nat /\ next \in Nat /\ back <= next
      BY <1>1 DEF BackFrom
    <2> HIDE DEF back, next
    <2>3. \A t \in next..(m + 1) : t \in back..m \/ f[t] = 0
      BY <1>1, <1>3, <2>2
    <2>4. Cardinality(Made(f, next, m + 1)) <= Cardinality(Made(f, back, m))
      BY <1>1, <2>2, <2>3, MadeShrinks
    <2>5. Cardinality(Made(f, next, m + 1)) \in Nat /\ Cardinality(Made(f, back, m)) \in Nat
      BY <1>1, <2>2, MadeFinite
    <2>6. ClosedAt(f, m + 1)
      BY <1>1, <1>3, <2>1, <2>4, <2>5 DEF ClosedAt, next
    <2> QED
      BY <1>3, <1>5, <2>6 DEF WindowAt
  <1> QED
    BY <1>2, <1>4, <1>5

(***************************************************************************)
(* Signing in: the invariant.                                               *)
(***************************************************************************)
\* A step that changes what one identity may do, at most.
LEMMA OneIdentity ==
  ASSUME WindowsHold, UNCHANGED <<hosted, minute>>, NEW i \in Identities, NEW b \in Buckets(minute), NEW f \in Tallies,
         bucket' = [bucket EXCEPT ![i] = b], allowed' = [allowed EXCEPT ![i] = f],
         WindowAt(f, b, minute, LastOf(b))
  PROVE  WindowsHold'
  <1>1. /\ minute \in 0..MaxMinutes /\ bucket \in [Identities -> Buckets(minute)]
        /\ allowed \in [Identities -> Tallies]
    BY DEF WindowsHold, WindowsTyped, Buckets, Tallies
  <1>2. /\ bucket' \in [Identities -> Buckets(minute)] /\ allowed' \in [Identities -> Tallies]
        /\ bucket'[i] = b /\ \A j \in Identities \ {i} : bucket'[j] = bucket[j]
        /\ allowed'[i] = f /\ \A j \in Identities \ {i} : allowed'[j] = allowed[j]
    BY <1>1
  <1>3. WindowsTyped'
    BY <1>1, <1>2 DEF WindowsTyped, Buckets, Tallies
  <1>4. ASSUME NEW j \in Identities
        PROVE  WindowAt(allowed'[j], bucket'[j], minute', LastOf(bucket[j])')
    <2>1. LastOf(bucket[j])' = LastOf(bucket'[j])
      BY DEF LastOf
    <2>2. CASE j = i
      BY <1>2, <2>1, <2>2
    <2>3. CASE j # i
      <3>1. WindowAt(allowed[j], bucket[j], minute, LastOf(bucket[j]))
        BY WindowsAre DEF WindowsHold
      <3> QED
        BY <1>2, <2>1, <2>3, <3>1
    <2> QED
      BY <2>2, <2>3
  <1>5. WindowsCount'
    BY <1>4, WindowsAre
  <1> QED
    BY <1>3, <1>5 DEF WindowsHold

LEMMA IdentityIs ==
  ASSUME WindowsHold, NEW i \in Identities
  PROVE  /\ minute \in 0..MaxMinutes /\ minute \in Nat
         /\ bucket[i] \in Buckets(minute) /\ bucket[i].since \in Nat /\ bucket[i].since <= minute
         /\ bucket[i].count \in 0..(MAX_ATTEMPTS + 1)
         /\ allowed[i] \in Tallies /\ bucket = [bucket EXCEPT ![i] = bucket[i]] /\ allowed = [allowed EXCEPT ![i] = allowed[i]]
         /\ WindowAt(allowed[i], bucket[i], minute, LastOf(bucket[i]))
  <1>1. /\ minute \in 0..MaxMinutes /\ bucket \in [Identities -> Buckets(minute)]
        /\ allowed \in [Identities -> Tallies]
    BY DEF WindowsHold, WindowsTyped, Buckets, Tallies
  <1>2. bucket[i] \in Buckets(minute)
    BY <1>1
  <1>3. bucket[i].since \in 0..minute /\ bucket[i].count \in 0..(MAX_ATTEMPTS + 1) /\ minute \in Nat
    BY <1>1, <1>2, SignInAssumption DEF Buckets
  <1>4. WindowAt(allowed[i], bucket[i], minute, LastOf(bucket[i]))
    BY WindowsAre DEF WindowsHold
  <1> QED
    BY <1>1, <1>2, <1>3, <1>4

LEMMA AttemptKeeps ==
  ASSUME WindowsHold, NEW r, NEW i \in Identities, NEW right, Attempt(r, i, right)
  PROVE  WindowsHold'
  <1> DEFINE b == bucket[i]
             next == Consumed(b)
             f == allowed[i]
             g == [f EXCEPT ![minute] = @ + 1]
  <1>1. /\ minute \in 0..MaxMinutes /\ minute \in Nat
        /\ b \in Buckets(minute) /\ b.since \in Nat /\ b.since <= minute /\ b.count \in 0..(MAX_ATTEMPTS + 1)
        /\ f \in Tallies /\ bucket = [bucket EXCEPT ![i] = b] /\ allowed = [allowed EXCEPT ![i] = f]
        /\ WindowAt(f, b, minute, LastOf(b))
    BY IdentityIs
  <1>2. MAX_ATTEMPTS \in Nat \ {0} /\ WINDOW \in Nat \ {0} /\ MaxMinutes \in Nat
    BY SignInAssumption
  <1>3. /\ bucket' = [bucket EXCEPT ![i] = next] /\ UNCHANGED <<hosted, minute>>
        /\ next.count > MAX_ATTEMPTS => allowed' = [allowed EXCEPT ![i] = f]
        /\ ~(next.count > MAX_ATTEMPTS) => allowed' = [allowed EXCEPT ![i] = g]
    <2>1. bucket' = [bucket EXCEPT ![i] = next] /\ bucket'[i] = next
      <3>1. bucket' = [bucket EXCEPT ![i] = next]
        BY DEF Attempt
      <3>2. bucket'[i] = next
        BY <3>1 DEF WindowsHold, WindowsTyped
      <3> QED
        BY <3>1, <3>2
    <2> HIDE DEF next
    <2>2. CASE next.count > MAX_ATTEMPTS
      <3>1. UNCHANGED allowed
        BY <2>1, <2>2 DEF Attempt
      <3> QED
        BY <1>1, <2>1, <2>2, <3>1 DEF Attempt
    <2>3. CASE ~(next.count > MAX_ATTEMPTS)
      <3>1. allowed' = [allowed EXCEPT ![i][minute] = @ + 1]
        BY <2>1, <2>3 DEF Attempt
      <3>2. allowed' = [allowed EXCEPT ![i] = g]
        BY <3>1
      <3> QED
        BY <2>1, <2>3, <3>2 DEF Attempt
    <2> QED
      BY <2>2, <2>3
  <1>4. /\ LastOf(b) \in Nat /\ LastOf(b) >= b.since + WINDOW - 1
        /\ Expired(b) <=> minute > LastOf(b)
    BY <1>1, LastIs
  <1>5. CASE b.count = 0 \/ Expired(b)
    <2>1. next = [count |-> 1, since |-> minute]
      BY <1>5 DEF Consumed
    <2>2. next.count = 1 /\ next.since = minute /\ next \in Buckets(minute)
      BY <1>1, <1>2, <2>1 DEF Buckets
    <2>3. LastOf(next) \in Nat /\ minute <= LastOf(next)
      BY <1>1, <2>2, LastIs
    <2>4. b.count = 0 \/ minute > LastOf(b)
      BY <1>4, <1>5
    <2>5. g \in Tallies /\ WindowAt(g, next, minute, LastOf(next))
      BY <1>1, <1>4, <2>1, <2>3, <2>4, WindowOpens
    <2>6. ~(next.count > MAX_ATTEMPTS)
      BY <1>2, <2>2
    <2> HIDE DEF next, g
    <2> QED
      BY <1>3, <2>2, <2>5, <2>6, OneIdentity
  <1>6. CASE ~(b.count = 0 \/ Expired(b))
    <2>1. next = [b EXCEPT !.count = AtMost(@ + 1, MAX_ATTEMPTS + 1)]
      BY <1>6 DEF Consumed
    <2>2. AtMost(b.count + 1, MAX_ATTEMPTS + 1) \in 0..(MAX_ATTEMPTS + 1)
      BY <1>1, <1>2 DEF AtMost
    <2>3. /\ next \in Buckets(minute) /\ next.since = b.since
          /\ next.count = AtMost(b.count + 1, MAX_ATTEMPTS + 1) /\ next.count \in Nat
      BY <1>1, <2>1, <2>2 DEF Buckets
    <2>4. b.count > 0 /\ minute <= LastOf(b)
      BY <1>1, <1>4, <1>6
    <2>5. LastOf(next) = LastOf(b)
      BY <2>3 DEF LastOf
    <2> HIDE DEF next
    <2>6. /\ next.count > MAX_ATTEMPTS => WindowAt(f, next, minute, LastOf(next))
          /\ next.count <= MAX_ATTEMPTS => g \in Tallies /\ WindowAt(g, next, minute, LastOf(next))
      BY <1>1, <1>4, <2>3, <2>4, <2>5, WindowGoesOn
    <2> HIDE DEF g, f
    <2>7. CASE next.count > MAX_ATTEMPTS
      BY <1>1, <1>3, <2>3, <2>6, <2>7, OneIdentity
    <2>8. CASE ~(next.count > MAX_ATTEMPTS)
      <3>1. next.count <= MAX_ATTEMPTS
        BY <1>2, <2>3, <2>8
      <3> QED
        BY <1>3, <2>3, <2>6, <2>8, <3>1, OneIdentity
    <2> QED
      BY <2>7, <2>8
  <1> QED
    BY <1>5, <1>6

LEMMA ReleaseKeeps ==
  ASSUME WindowsHold, NEW r, signin[r].who \in Identities, Release(r)
  PROVE  WindowsHold'
  <1> DEFINE i == signin[r].who
  <1>1. minute \in 0..MaxMinutes /\ i \in Identities
    BY IdentityIs
  <1>2. /\ bucket' = [bucket EXCEPT ![i] = Unused] /\ allowed' = [allowed EXCEPT ![i] = Never]
        /\ UNCHANGED <<hosted, minute>>
    BY DEF Release, Released
  <1> HIDE DEF i
  <1>3. Unused \in Buckets(minute)
    BY <1>1, SignInAssumption DEF Unused, Buckets
  <1>4. Never \in Tallies /\ WindowAt(Never, Unused, minute, LastOf(Unused))
    BY <1>1, WindowResets
  <1> QED
    BY <1>1, <1>2, <1>3, <1>4, OneIdentity

LEMMA PruneKeeps ==
  ASSUME WindowsHold, NEW i \in Identities, Prune(i)
  PROVE  WindowsHold'
  <1> DEFINE b == bucket[i]
             f == allowed[i]
  <1>1. /\ minute \in 0..MaxMinutes /\ minute \in Nat
        /\ b \in Buckets(minute) /\ b.since \in Nat /\ b.since <= minute
        /\ f \in Tallies /\ allowed = [allowed EXCEPT ![i] = f]
        /\ WindowAt(f, b, minute, LastOf(b))
    BY IdentityIs
  <1>2. b.count > 0 /\ bucket' = [bucket EXCEPT ![i] = Unused] /\ UNCHANGED <<hosted, minute, allowed>>
    BY DEF Prune
  <1>3. LastOf(b) \in Nat /\ LastOf(b) >= b.since + WINDOW - 1
    BY <1>1, LastIs
  <1>4. minute > LastOf(b)
    <2>1. CASE hosted
      BY <1>1, <2>1, SignInAssumption DEF Prune, LastOf
    <2>2. CASE ~hosted
      BY <1>1, <2>2, SignInAssumption DEF Prune, LastOf
    <2> QED
      BY <2>1, <2>2
  <1> HIDE DEF b, f
  <1>5. WindowAt(f, Unused, minute, LastOf(Unused))
    BY <1>1, <1>2, <1>3, <1>4, WindowCloses
  <1>6. Unused \in Buckets(minute)
    BY <1>1, SignInAssumption DEF Unused, Buckets
  <1>7. allowed' = [allowed EXCEPT ![i] = f]
    BY <1>1, <1>2
  <1> QED
    BY <1>1, <1>2, <1>5, <1>6, <1>7, OneIdentity

LEMMA MinuteKeeps ==
  ASSUME WindowsHold, MinutePasses
  PROVE  WindowsHold'
  <1>1. minute < MaxMinutes /\ minute' = minute + 1 /\ UNCHANGED <<hosted, bucket, allowed>>
    BY DEF MinutePasses
  <1>2. /\ minute \in 0..MaxMinutes /\ bucket \in [Identities -> Buckets(minute)]
        /\ allowed \in [Identities -> Tallies] /\ MaxMinutes \in Nat
    BY SignInAssumption DEF WindowsHold, WindowsTyped, Buckets, Tallies
  <1>3. bucket \in [Identities -> Buckets(minute + 1)]
    <2>1. Buckets(minute) \subseteq Buckets(minute + 1)
      BY <1>2 DEF Buckets
    <2> QED
      BY <1>2, <2>1
  <1>4. WindowsTyped'
    BY <1>1, <1>2, <1>3 DEF WindowsTyped, Buckets, Tallies
  <1>5. ASSUME NEW i \in Identities
        PROVE  WindowAt(allowed'[i], bucket'[i], minute', LastOf(bucket[i])')
    <2>1. LastOf(bucket[i])' = LastOf(bucket[i])
      BY <1>1 DEF LastOf
    <2>2. /\ bucket[i] \in Buckets(minute) /\ allowed[i] \in Tallies
          /\ WindowAt(allowed[i], bucket[i], minute, LastOf(bucket[i]))
      BY IdentityIs
    <2>3. WindowAt(allowed[i], bucket[i], minute + 1, LastOf(bucket[i]))
      BY <1>1, <1>2, <2>2, WindowAges
    <2> QED
      BY <1>1, <2>1, <2>3
  <1> QED
    BY <1>4, <1>5, WindowsAre DEF WindowsHold

LEMMA RestartKeeps ==
  ASSUME WindowsHold, Restart
  PROVE  WindowsHold'
  <1>1. UNCHANGED <<hosted, minute>>
    BY DEF Restart
  <1>2. CASE hosted
    <2>1. UNCHANGED <<bucket, allowed>>
      BY <1>2 DEF Restart
    <2> QED
      BY <1>1, <2>1 DEF WindowsHold, WindowsTyped, WindowsCount, NothingAhead, WindowOpen, WindowClosed, Checks, Back, LastOf
  <1>3. CASE ~hosted
    <2>1. bucket' = [i \in Identities |-> Unused] /\ allowed' = [i \in Identities |-> Never]
      BY <1>3 DEF Restart
    <2>2. minute \in 0..MaxMinutes /\ MAX_ATTEMPTS \in Nat
      BY SignInAssumption DEF WindowsHold, WindowsTyped
    <2>3. Unused \in Buckets(minute) /\ Never \in Tallies
      BY <2>2 DEF Unused, Buckets, Never, Tallies
    <2>4. WindowsTyped'
      BY <1>1, <2>1, <2>2, <2>3 DEF WindowsTyped, Buckets, Tallies
    <2>5. ASSUME NEW i \in Identities
          PROVE  WindowAt(allowed'[i], bucket'[i], minute', LastOf(bucket[i])')
      <3>1. allowed'[i] = Never /\ bucket'[i] = Unused
        BY <2>1
      <3> QED
        BY <1>1, <2>2, <3>1, WindowResets
    <2> QED
      BY <2>4, <2>5, WindowsAre DEF WindowsHold
  <1> QED
    BY <1>2, <1>3

LEMMA SignInitInv == SignInInit => WindowsHold
  <1> SUFFICES ASSUME SignInInit PROVE WindowsHold
    OBVIOUS
  <1>1. /\ minute = 0 /\ bucket = [i \in Identities |-> Unused] /\ allowed = [i \in Identities |-> Never]
    BY DEF SignInInit
  <1>2. minute \in 0..MaxMinutes /\ MAX_ATTEMPTS \in Nat
    BY <1>1, SignInAssumption
  <1>3. Unused \in Buckets(minute) /\ Never \in Tallies
    BY <1>1, <1>2 DEF Unused, Buckets, Never, Tallies
  <1>4. WindowsTyped
    BY <1>1, <1>2, <1>3 DEF WindowsTyped, Buckets, Tallies
  <1>5. ASSUME NEW i \in Identities
        PROVE  WindowAt(allowed[i], bucket[i], minute, LastOf(bucket[i]))
    <2>1. allowed[i] = Never /\ bucket[i] = Unused
      BY <1>1
    <2> QED
      BY <1>2, <2>1, WindowResets
  <1> QED
    BY <1>4, <1>5, WindowsAre DEF WindowsHold

LEMMA RequestsStayKnown ==
  ASSUME RequestsKnown, [SignInNext]_signInVars
  PROVE  RequestsKnown'
  <1>1. ASSUME NEW r \in Requests, NEW w, signin' = [signin EXCEPT ![r] = w], w.at # "none" => w.who \in Identities
        PROVE  RequestsKnown'
    BY <1>1 DEF RequestsKnown
  <1>2. ASSUME UNCHANGED signin PROVE RequestsKnown'
    BY <1>2 DEF RequestsKnown
  <1>3. ASSUME NEW r \in Requests, NEW i \in Identities, NEW right \in BOOLEAN, Attempt(r, i, right) PROVE RequestsKnown'
    <2>1. CASE UNCHANGED signin
      BY <1>2, <2>1
    <2>2. CASE signin' = [signin EXCEPT ![r] = [at |-> "lookup", who |-> i, right |-> right]]
      BY <1>1, <2>2
    <2> QED
      BY <1>3, <2>1, <2>2 DEF Attempt
  <1>4. ASSUME NEW r \in Requests, LookUp(r) PROVE RequestsKnown'
    <2>1. signin[r].who \in Identities
      BY <1>4 DEF LookUp, RequestsKnown
    <2>2. \/ signin' = [signin EXCEPT ![r] = NoRequest]
          \/ signin' = [signin EXCEPT ![r] = [at |-> "release", who |-> signin[r].who]]
      BY <1>4 DEF LookUp
    <2>3. NoRequest.at = "none"
      BY DEF NoRequest
    <2> QED
      BY <1>1, <2>1, <2>2, <2>3
  <1>5. ASSUME NEW r \in Requests, Release(r) PROVE RequestsKnown'
    <2>1. signin' = [signin EXCEPT ![r] = NoRequest] /\ NoRequest.at = "none"
      BY <1>5 DEF Release, NoRequest
    <2> QED
      BY <1>1, <2>1
  <1>6. ASSUME Restart PROVE RequestsKnown'
    <2>1. signin' = [r \in Requests |-> NoRequest] /\ NoRequest.at = "none"
      BY <1>6 DEF Restart, NoRequest
    <2> QED
      BY <2>1 DEF RequestsKnown
  <1>7. ASSUME NEW i \in Identities, Prune(i) \/ SignOut(i) \/ \E s \in {"active", "inactive"} : AccountChanges(i, s)
        PROVE  RequestsKnown'
    BY <1>2, <1>7 DEF Prune, SignOut, AccountChanges
  <1>8. ASSUME MinutePasses \/ UNCHANGED signInVars PROVE RequestsKnown'
    BY <1>2, <1>8 DEF MinutePasses, signInVars
  <1> QED
    BY <1>3, <1>4, <1>5, <1>6, <1>7, <1>8, Zenon DEF SignInNext

LEMMA SignInNextKeeps == SignInv /\ [SignInNext]_signInVars => SignInv'
  <1> SUFFICES ASSUME WindowsHold, RequestsKnown, [SignInNext]_signInVars PROVE SignInv'
    BY DEF SignInv
  <1>1. ASSUME NEW r \in Requests, Release(r) PROVE WindowsHold'
    <2>1. signin[r].who \in Identities
      BY <1>1 DEF Release, RequestsKnown
    <2> QED
      BY <1>1, <2>1, ReleaseKeeps
  <1>2. ASSUME UNCHANGED <<hosted, minute, bucket, allowed>> PROVE WindowsHold'
    BY <1>2 DEF WindowsHold, WindowsTyped, WindowsCount, NothingAhead, WindowOpen, WindowClosed, Checks, Back, LastOf
  <1>3. ASSUME NEW r \in Requests, LookUp(r) PROVE WindowsHold'
    BY <1>2, <1>3 DEF LookUp
  <1>4. ASSUME NEW i \in Identities, SignOut(i) \/ \E s \in {"active", "inactive"} : AccountChanges(i, s) PROVE WindowsHold'
    BY <1>2, <1>4 DEF SignOut, AccountChanges
  <1>5. ASSUME UNCHANGED signInVars PROVE WindowsHold'
    <2>1. UNCHANGED <<hosted, minute, bucket, allowed>>
      BY <1>5 DEF signInVars
    <2> QED
      BY <1>2, <2>1, Zenon
  <1>6. ASSUME NEW r \in Requests, NEW i \in Identities, NEW right \in BOOLEAN, Attempt(r, i, right) PROVE WindowsHold'
    BY <1>6, AttemptKeeps
  <1>7. ASSUME NEW i \in Identities, Prune(i) PROVE WindowsHold'
    BY <1>7, PruneKeeps
  <1>8. ASSUME SignInNext PROVE WindowsHold'
    BY <1>1, <1>3, <1>4, <1>6, <1>7, <1>8, MinuteKeeps, RestartKeeps, Zenon DEF SignInNext
  <1>9. WindowsHold'
    BY <1>5, <1>8, Zenon
  <1> QED
    BY <1>9, RequestsStayKnown DEF SignInv

(* The inductive invariant of the throttle: an open window counts what it   *)
(* let through, and the WINDOW before it let through one limit's worth.     *)
THEOREM SignInvariant == SignInSpec => []SignInv
  <1>1. SignInInit => SignInv
    <2>1. SignInInit => RequestsKnown
      BY DEF SignInInit, RequestsKnown, NoRequest
    <2> QED
      BY <2>1, SignInitInv DEF SignInv
  <1> QED
    BY <1>1, SignInNextKeeps, PTL DEF SignInSpec

(* For any identities, requests at once, limits, windows, restarts and      *)
(* account changes, hosted or not: between two successes nobody gets more   *)
(* than twice MAX_ATTEMPTS password checks in a WINDOW, and whoever is      *)
(* refused had MAX_ATTEMPTS in the one just past (consumeSignInAttempt).    *)
THEOREM LimitsHold == SignInSpec => []LimitsBindAndEnd
  <1>1. SignInv => LimitsBindAndEnd
    <2> SUFFICES ASSUME WindowsHold, NEW i \in Identities
                 PROVE  /\ Checks(i, Back(WINDOW - 1)) <= 2 * MAX_ATTEMPTS
                        /\ Refused(i) => Checks(i, Back(WINDOW)) >= MAX_ATTEMPTS
      BY DEF SignInv, LimitsBindAndEnd, GuessesAreBounded, RefusedForCause
    <2> DEFINE b == bucket[i]
               f == allowed[i]
               m == minute
               last == LastOf(b)
    <2>1. /\ m \in 0..MaxMinutes /\ m \in Nat
          /\ b \in Buckets(m) /\ b.since \in Nat /\ b.since <= m /\ b.count \in 0..(MAX_ATTEMPTS + 1)
          /\ f \in Tallies /\ WindowAt(f, b, m, last)
      BY IdentityIs
    <2>2. last \in Nat /\ last <= b.since + WINDOW /\ (Expired(b) <=> m > last)
      BY <2>1, LastIs
    <2>3. /\ MAX_ATTEMPTS \in Nat \ {0} /\ WINDOW \in Nat \ {0} /\ MaxMinutes \in Nat
          /\ m \in Int /\ m <= MaxMinutes /\ b.since - 1 \in Int /\ b.since - 1 <= MaxMinutes
      BY <2>1, SignInAssumption
    <2>4. Checks(i, Back(WINDOW - 1)) <= 2 * MAX_ATTEMPTS
      <3> DEFINE back == BackFrom(m, WINDOW - 1)
      <3>1. Checks(i, Back(WINDOW - 1)) = Cardinality(Made(f, back, m))
        BY DEF Checks, Back, BackFrom
      <3>2. back \in Nat /\ back <= m /\ (b.since <= m => BackFrom(b.since, WINDOW - 1) <= back)
        BY <2>1, <2>3 DEF BackFrom
      <3>3. Cardinality(Made(f, back, m)) \in Nat
        BY <2>1, <2>3, <3>2, MadeFinite
      <3>4. CASE b.count = 0
        <4>1. Cardinality(Made(f, back, m)) <= MAX_ATTEMPTS
          BY <2>1, <3>4 DEF WindowAt, ClosedAt
        <4> QED
          BY <2>3, <3>1, <3>3, <4>1
      <3>5. CASE b.count # 0
        <4>1. OpenAt(f, b, m, last)
          BY <2>1, <3>5 DEF WindowAt
        <4>2. Cardinality(Made(f, b.since, m)) <= MAX_ATTEMPTS
          BY <2>1, <2>3, <4>1 DEF OpenAt, AtMost
        <4>3. Cardinality(Made(f, b.since, m)) \in Nat
          BY <2>1, <2>3, MadeFinite
        <4>4. CASE b.since <= back
          <5>1. \A t \in back..m : t \in b.since..m
            BY <2>1, <3>2, <4>4
          <5>2. Cardinality(Made(f, back, m)) <= Cardinality(Made(f, b.since, m))
            BY <2>1, <2>3, <3>2, <5>1, MadeShrinks
          <5> QED
            BY <2>3, <3>1, <3>3, <4>2, <4>3, <5>2
        <4>5. CASE back < b.since
          <5> DEFINE early == BackFrom(b.since, WINDOW - 1)
          <5>1. early \in Nat /\ early <= back
            BY <2>1, <2>3, <3>2 DEF BackFrom
          <5>2. Cardinality(Made(f, early, b.since - 1)) <= MAX_ATTEMPTS
            <6>1. b.since > 0
              BY <2>1, <3>2, <4>5
            <6> QED
              BY <4>1, <6>1 DEF OpenAt
          <5> HIDE DEF early, back
          <5>3. \A t \in back..(b.since - 1) : t \in early..(b.since - 1)
            BY <3>2, <5>1
          <5>4. Cardinality(Made(f, back, b.since - 1)) <= Cardinality(Made(f, early, b.since - 1))
            BY <2>1, <2>3, <3>2, <5>1, <5>3, MadeShrinks
          <5>5. /\ Cardinality(Made(f, back, b.since - 1)) \in Nat
                /\ Cardinality(Made(f, early, b.since - 1)) \in Nat
            BY <2>1, <2>3, <3>2, <5>1, MadeFinite
          <5>6. Cardinality(Made(f, back, m)) <= Cardinality(Made(f, back, b.since - 1)) + Cardinality(Made(f, b.since, m))
            <6>1. back <= b.since /\ b.since <= m + 1
              BY <2>1, <3>2, <4>5
            <6> QED
              BY <2>1, <2>3, <3>2, <6>1, MadeSplits
          <5> QED
            BY <2>3, <3>1, <3>3, <4>2, <4>3, <5>2, <5>4, <5>5, <5>6 DEF back
        <4> QED
          BY <2>1, <3>2, <4>4, <4>5
      <3> QED
        BY <3>4, <3>5
    <2>5. ASSUME Refused(i) PROVE Checks(i, Back(WINDOW)) >= MAX_ATTEMPTS
      <3> DEFINE back == BackFrom(m, WINDOW)
      <3>1. Checks(i, Back(WINDOW)) = Cardinality(Made(f, back, m))
        BY DEF Checks, Back, BackFrom
      <3>2. b.count # 0 /\ ~Expired(b)
        <4>1. ASSUME b.count = 0 \/ Expired(b) PROVE FALSE
          <5>1. Consumed(b).count = 1
            BY <4>1 DEF Consumed
          <5> QED
            BY <2>3, <2>5, <5>1 DEF Refused
        <4> QED
          BY <4>1
      <3>3. b.count >= MAX_ATTEMPTS
        <4>1. Consumed(b) = [b EXCEPT !.count = AtMost(@ + 1, MAX_ATTEMPTS + 1)]
          BY <3>2 DEF Consumed
        <4>2. Consumed(b).count = AtMost(b.count + 1, MAX_ATTEMPTS + 1)
          BY <2>1, <4>1 DEF Buckets
        <4> QED
          BY <2>1, <2>3, <2>5, <4>2 DEF Refused, AtMost
      <3>4. back \in Nat /\ back <= b.since
        BY <2>1, <2>2, <2>3, <3>2 DEF BackFrom
      <3>5. Cardinality(Made(f, b.since, m)) = MAX_ATTEMPTS
        <4>1. OpenAt(f, b, m, last)
          BY <2>1, <3>2 DEF WindowAt
        <4> QED
          BY <2>1, <2>3, <3>3, <4>1 DEF OpenAt, AtMost
      <3> HIDE DEF back
      <3>6. \A t \in b.since..m : t \in back..m
        BY <2>1, <3>4
      <3>7. Cardinality(Made(f, b.since, m)) <= Cardinality(Made(f, back, m))
        BY <2>1, <2>3, <3>4, <3>6, MadeShrinks
      <3>8. Cardinality(Made(f, back, m)) \in Nat
        BY <2>1, <2>3, <3>4, MadeFinite
      <3> QED
        BY <2>3, <3>1, <3>5, <3>7, <3>8 DEF back
    <2> QED
      BY <2>4, <2>5
  <1> QED
    BY <1>1, SignInvariant, PTL
=============================================================================
