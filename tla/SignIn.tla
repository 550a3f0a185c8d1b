-------------------------------- MODULE SignIn --------------------------------
(***************************************************************************)
(* The throttle before the password check (verifyCredentials.ts,            *)
(* rateLimit.ts, hostedRateLimit.ts, authRateLimitRepository.ts), and the   *)
(* probes of the public unsubscribe page, which use a window of their own.  *)
(*                                                                         *)
(* An identity has one counter, in the process or, when hosted, in a row    *)
(* all replicas share.  A window opens with its first attempt; a refused    *)
(* attempt costs nothing but the refusal.  Several requests may be between  *)
(* their attempt and the outcome of their password check at once.           *)
(***************************************************************************)
EXTENDS Integers, FiniteSets

CONSTANTS Identities,    \* email addresses somebody signs in with
          Requests,      \* sign-in requests being handled
          MAX_ATTEMPTS, WINDOW,
          MaxMinutes, MaxRestarts   \* bounds

ASSUME SignInAssumption ==
    MAX_ATTEMPTS \in Nat \ {0} /\ WINDOW \in Nat \ {0} /\ MaxMinutes \in Nat /\ MaxRestarts \in Nat

VARIABLES
    hosted,    \* AXIS_HOSTED
    minute,
    bucket,    \* [Identities -> the counter: [count, since]; count 0: no entry]
    account,   \* [Identities -> "none", "active" or "inactive"]
    signin,    \* [Requests -> what each waits for]
    cookies,   \* identities with a session cookie
    allowed,   \* history: [Identities -> [time -> attempts let through since the last release]]
    restarts

signInVars == <<hosted, minute, bucket, account, signin, cookies, allowed, restarts>>

Unused == [count |-> 0, since |-> 0]
NoRequest == [at |-> "none"]
Never == [t \in 0..MaxMinutes |-> 0]

SignInInit ==
    /\ hosted \in BOOLEAN /\ minute = 0
    /\ bucket = [i \in Identities |-> Unused]
    /\ account \in [Identities -> {"none", "active", "inactive"}]
    /\ signin = [r \in Requests |-> NoRequest]
    /\ cookies = {} /\ restarts = 0
    /\ allowed = [i \in Identities |-> Never]

(* consumeSignInAttempt lets the window pass entirely before it opens a new *)
(* one; the shared row expires when its time is reached.                    *)
Expired(b) == IF hosted THEN b.since + WINDOW <= minute ELSE minute - b.since > WINDOW
AtMost(n, limit) == IF n > limit THEN limit ELSE n
(* Mutant of Consumed: a refused attempt opens the window anew. *)
ConsumedAgain(b) ==
    IF b.count = 0 \/ Expired(b) \/ b.count >= MAX_ATTEMPTS
      THEN [count |-> IF b.count = 0 \/ Expired(b) THEN 1 ELSE b.count + 1, since |-> minute]
      ELSE [b EXCEPT !.count = @ + 1]
(* Mutant of Consumed: the counter stops one short of refusing. *)
ConsumedUpTo(b) ==
    IF b.count = 0 \/ Expired(b) THEN [count |-> 1, since |-> minute]
                                 ELSE [b EXCEPT !.count = AtMost(@ + 1, MAX_ATTEMPTS)]
Consumed(b) ==
    IF b.count = 0 \/ Expired(b) THEN [count |-> 1, since |-> minute]
                                 ELSE [b EXCEPT !.count = AtMost(@ + 1, MAX_ATTEMPTS + 1)]
Refused(i) == Consumed(bucket[i]).count > MAX_ATTEMPTS

(* The attempt is counted before anything is looked up.                     *)
Attempt(r, i, right) ==
    /\ signin[r] = NoRequest
    /\ bucket' = [bucket EXCEPT ![i] = Consumed(@)]
    /\ IF bucket'[i].count > MAX_ATTEMPTS
         THEN UNCHANGED <<signin, allowed>>
         ELSE /\ signin' = [signin EXCEPT ![r] = [at |-> "lookup", who |-> i, right |-> right]]
              /\ allowed' = [allowed EXCEPT ![i][minute] = @ + 1]
    /\ UNCHANGED <<hosted, minute, account, cookies, restarts>>

(* The row is read; the password is verified before its state is looked at. *)
signInRefusal(state) == state = "inactive"
LookUp(r) ==
    LET w == signin[r] IN
    /\ w.at = "lookup"
    /\ signin' = [signin EXCEPT ![r] =
         IF account[w.who] = "none" \/ ~w.right \/ signInRefusal(account[w.who])
           THEN NoRequest ELSE [at |-> "release", who |-> w.who]]
    /\ UNCHANGED <<hosted, minute, bucket, account, cookies, allowed, restarts>>
Released(i) == [bucket EXCEPT ![i] = Unused]
Release(r) ==
    LET w == signin[r] IN
    /\ w.at = "release"
    /\ bucket' = Released(w.who)
    /\ allowed' = [allowed EXCEPT ![w.who] = Never]
    /\ cookies' = cookies \cup {w.who}
    /\ signin' = [signin EXCEPT ![r] = NoRequest]
    /\ UNCHANGED <<hosted, minute, account, restarts>>

(* Rows that expired are deleted now and then; the local map is pruned when *)
(* it is full.                                                              *)
Prune(i) ==
    /\ bucket[i].count > 0
    /\ IF hosted THEN bucket[i].since + WINDOW < minute ELSE minute - bucket[i].since > WINDOW
    /\ bucket' = [bucket EXCEPT ![i] = Unused]
    /\ UNCHANGED <<hosted, minute, account, signin, cookies, allowed, restarts>>

SignOut(i) ==
    /\ i \in cookies /\ cookies' = cookies \ {i}
    /\ UNCHANGED <<hosted, minute, bucket, account, signin, allowed, restarts>>
AccountChanges(i, state) ==
    /\ account[i] # state /\ state # "none" /\ account' = [account EXCEPT ![i] = state]
    /\ UNCHANGED <<hosted, minute, bucket, signin, cookies, allowed, restarts>>
MinutePasses ==
    /\ minute < MaxMinutes /\ minute' = minute + 1
    /\ UNCHANGED <<hosted, bucket, account, signin, cookies, allowed, restarts>>
(* A replica starts again.  A counter in the process is gone with it, and   *)
(* so is what the history knows of it.                                      *)
Restart ==
    /\ restarts < MaxRestarts /\ restarts' = restarts + 1
    /\ signin' = [r \in Requests |-> NoRequest]
    /\ IF hosted THEN UNCHANGED <<bucket, allowed>>
                 ELSE /\ bucket' = [i \in Identities |-> Unused]
                      /\ allowed' = [i \in Identities |-> Never]
    /\ UNCHANGED <<hosted, minute, account, cookies>>

SignInNext ==
    \/ \E r \in Requests :
         \/ \E i \in Identities, right \in BOOLEAN : Attempt(r, i, right)
         \/ LookUp(r) \/ Release(r)
    \/ \E i \in Identities : Prune(i) \/ SignOut(i) \/ \E s \in {"active", "inactive"} : AccountChanges(i, s)
    \/ MinutePasses \/ Restart

SignInSpec == SignInInit /\ [][SignInNext]_signInVars

(***************************************************************************)
(* Properties.                                                              *)
(***************************************************************************)
(* The attempts let through from one minute to another, each by its minute  *)
(* and its number in it.                                                    *)
Made(tally, from, to) == UNION {{t} \X (1..tally[t]) : t \in from..to}
Checks(i, from) == Cardinality(Made(allowed[i], from, minute))
Back(n) == IF minute > n THEN minute - n ELSE 0

(* Between two successes an identity gets at most twice MAX_ATTEMPTS        *)
(* password checks in any WINDOW of time, wherever its windows fall and,    *)
(* when hosted, however often a replica starts again.                       *)
GuessesAreBounded ==
    \A i \in Identities : Checks(i, Back(WINDOW - 1)) <= 2 * MAX_ATTEMPTS

(* A lockout ends: whoever is refused got MAX_ATTEMPTS checks within the    *)
(* WINDOW just past, so that knocking during a lockout does not prolong it. *)
RefusedForCause ==
    \A i \in Identities :
      Refused(i) => Checks(i, Back(WINDOW)) >= MAX_ATTEMPTS

(* The limit on wrong passwords binds guessers and lets the owner back in.  *)
LimitsBindAndEnd == GuessesAreBounded /\ RefusedForCause

(***************************************************************************)
(* The inductive invariant.                                                 *)
(***************************************************************************)
(* The last minute in which a window lets attempts through.                 *)
LastOf(b) == IF hosted THEN b.since + WINDOW - 1 ELSE b.since + WINDOW
BackFrom(time, n) == IF time > n THEN time - n ELSE 0

(* A window that is open counts what it let through, which all lies in it;  *)
(* the WINDOW before it opened let through one limit's worth at most.       *)
WindowOpen(i) ==
    LET b == bucket[i] IN
    /\ Checks(i, b.since) = AtMost(b.count, MAX_ATTEMPTS)
    /\ \A t \in 0..MaxMinutes : t > LastOf(b) => allowed[i][t] = 0
    /\ b.since > 0 =>
         Cardinality(Made(allowed[i], BackFrom(b.since, WINDOW - 1), b.since - 1)) <= MAX_ATTEMPTS
(* Without one nothing is let through now, and little was of late.          *)
WindowClosed(i) == allowed[i][minute] = 0 /\ Checks(i, Back(WINDOW - 1)) <= MAX_ATTEMPTS
NothingAhead(i) == \A t \in 0..MaxMinutes : t > minute => allowed[i][t] = 0

WindowsCount ==
    \A i \in Identities : /\ NothingAhead(i)
                          /\ bucket[i].count > 0 => WindowOpen(i)
                          /\ bucket[i].count = 0 => WindowClosed(i)
WindowsTyped ==
    /\ minute \in 0..MaxMinutes
    /\ bucket \in [Identities -> [count : 0..(MAX_ATTEMPTS + 1), since : 0..minute]]
    /\ allowed \in [Identities -> [0..MaxMinutes -> Nat]]
(* A request under way speaks for an identity.                              *)
RequestsKnown ==
    /\ signin = [r \in Requests |-> signin[r]]
    /\ \A r \in Requests : signin[r].at # "none" => signin[r].who \in Identities
WindowsHold == WindowsTyped /\ WindowsCount
SignInv == WindowsHold /\ RequestsKnown
=============================================================================
