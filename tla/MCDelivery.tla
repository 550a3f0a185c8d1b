----------------------------- MODULE MCDelivery -----------------------------
(***************************************************************************)
(* Small instances for TLC of what the application sends.  The scenario     *)
(* drawn at the start says which module moves, while the others rest in one *)
(* initial state of theirs; two scenarios are of CustomerDispatch, with one *)
(* destination and two executions whose lease may expire while they run:    *)
(*   ledger  executions die and every awaited call may throw, while the     *)
(*           provider reports events of every type in every order;          *)
(*   gates   consent, opt-outs, the CRM match and the approval change       *)
(*           between any two awaited calls;                                 *)
(*   pilot   a test mail is approved, sent, and tried again;                *)
(*   qa      staff and a test suite send to the QA inboxes.                 *)
(***************************************************************************)
EXTENDS MCCustomerDispatch, ApprovedSends, QaMail

CONSTANTS u1, u2, suite, nobody

VARIABLE scenario

Ledger == INSTANCE CustomerDispatch WITH
            Disturbances <- {"stall", "crash", "error", "events"}
Gates  == INSTANCE CustomerDispatch WITH
            Disturbances <- {"stall", "facts", "revoke"}

DeliveryInit ==
    /\ scenario \in {"ledger", "gates", "pilot", "qa"}
    /\ Init /\ SendsInit /\ QaInit
    /\ scenario # "gates" => \A r \in Recipients : facts[r] = Sendable

LedgerStep == scenario = "ledger" /\ Ledger!Next /\ UNCHANGED <<scenario, sendsVars, qaVars>>
GatesStep == scenario = "gates" /\ Gates!Next /\ UNCHANGED <<scenario, sendsVars, qaVars>>
PilotStep == scenario = "pilot" /\ SendsNext /\ UNCHANGED <<scenario, vars, qaVars>>
QaStep == scenario = "qa" /\ QaNext /\ UNCHANGED <<scenario, vars, sendsVars>>
DeliveryNext == LedgerStep \/ GatesStep \/ PilotStep \/ QaStep

DeliverySpec == DeliveryInit /\ [][DeliveryNext]_<<scenario, vars, sendsVars, qaVars>>

(* Executions are interchangeable, and so are the people who send.          *)
Interchangeable == Permutations(Workers) \union Permutations({u1, u2})
=============================================================================
