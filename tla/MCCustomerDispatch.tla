------------------------ MODULE MCCustomerDispatch --------------------------
(***************************************************************************)
(* Small instances of CustomerDispatch for TLC.                             *)
(***************************************************************************)
EXTENDS CustomerDispatch, TLC

Sendable ==
    [isUnsubscribed |-> FALSE, isSuppressed |-> FALSE, emailStatus |-> "VALID",
     consentStatus |-> "GRANTED", language |-> "HE"]

(* One address that may opt out, and one whose consent may be withdrawn. *)
StableFacts  == {Sendable}
MovingFacts  == {Sendable, [Sendable EXCEPT !.isUnsubscribed = TRUE],
                 [Sendable EXCEPT !.consentStatus = "DENIED"]}

(* Executions are interchangeable and so are destinations. *)
Symmetry == Permutations(Recipients) \union Permutations(Workers)

(* Executions that outlived their lease beside the next ones, over a world   *)
(* whose addresses, approval and people stay as they are: the scenarios of   *)
(* MCDelivery and MCWork move those.                                        *)
Outlived == Next /\ UNCHANGED <<revoked, actorActive, facts, matched>>
ZombieSpec == Init /\ [][Outlived]_vars
=============================================================================
