-------------------------- MODULE DeliveryPromise ---------------------------
(***************************************************************************)
(* What customer delivery promises, with no job, lease, worker or provider: *)
(* every listed destination is dropped or attempted once, an attempt is the *)
(* only source of mail and yields at most one message, a canceled campaign  *)
(* never mails, and a campaign reported SENT never mails again.             *)
(* CustomerDispatch implements this specification.                          *)
(***************************************************************************)
CONSTANT Recipients

VARIABLES
    phase,    \* the campaign's status
    fate,     \* what was decided for each destination
    mailed    \* the destinations for which a message was submitted

promiseVars == <<phase, fate, mailed>>

Phase == {"DRAFT", "SCHEDULED", "SENDING", "SENT", "FAILED", "CANCELED"}
Fate  == {"unlisted", "waiting", "attempted", "dropped"}

PromiseTypeOK ==
    /\ phase \in Phase
    /\ fate \in [Recipients -> Fate]
    /\ mailed \subseteq Recipients

PromiseInit ==
    /\ phase = "DRAFT"
    /\ fate = [r \in Recipients |-> "unlisted"]
    /\ mailed = {}

-----------------------------------------------------------------------------
(* Every destination of the approved audience is listed, or dropped at once. *)
List ==
    /\ phase = "DRAFT"
    /\ \A r \in Recipients :
         IF fate[r] = "unlisted" THEN fate'[r] \in {"waiting", "dropped"}
                                 ELSE fate'[r] = fate[r]
    /\ fate' \in [Recipients -> Fate]
    /\ UNCHANGED <<phase, mailed>>

Commit ==
    /\ phase = "DRAFT"
    /\ \A r \in Recipients : fate[r] # "unlisted"
    /\ phase' = "SCHEDULED"
    /\ UNCHANGED <<fate, mailed>>

CallOff ==
    /\ phase = "SCHEDULED"
    /\ phase' = "CANCELED"
    /\ UNCHANGED <<fate, mailed>>

Begin ==
    /\ phase = "SCHEDULED"
    /\ phase' = "SENDING"
    /\ UNCHANGED <<fate, mailed>>

Drop(r) ==
    /\ phase = "SENDING"
    /\ fate[r] = "waiting"
    /\ fate' = [fate EXCEPT ![r] = "dropped"]
    /\ UNCHANGED <<phase, mailed>>

Attempt(r) ==
    /\ phase = "SENDING"
    /\ fate[r] = "waiting"
    /\ fate' = [fate EXCEPT ![r] = "attempted"]
    /\ UNCHANGED <<phase, mailed>>

(* The message itself may leave late, even after the campaign was closed as *)
(* FAILED, but never after it was reported SENT.                            *)
Mail(r) ==
    /\ phase \in {"SENDING", "FAILED"}
    /\ fate[r] = "attempted"
    /\ r \notin mailed
    /\ mailed' = mailed \union {r}
    /\ UNCHANGED <<phase, fate>>

Close ==
    /\ phase = "SENDING"
    /\ \A r \in Recipients : fate[r] \in {"attempted", "dropped"}
    /\ phase' \in {"SENT", "FAILED"}
    /\ UNCHANGED <<fate, mailed>>

PromiseNext ==
    \/ List \/ Commit \/ CallOff \/ Begin \/ Close
    \/ \E r \in Recipients : Drop(r) \/ Attempt(r) \/ Mail(r)

PromiseSpec == PromiseInit /\ [][PromiseNext]_promiseVars
=============================================================================
