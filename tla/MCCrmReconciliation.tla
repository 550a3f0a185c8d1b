------------------------ MODULE MCCrmReconciliation ------------------------
(***************************************************************************)
(* Instances of CrmReconciliation for TLC.  MCOffice draws one of four      *)
(* scenarios at the start, which say which of the disturbances there are:   *)
(*   schedule  staff configure it twice beside the ticks of two executions, *)
(*             after a pull by hand;                                        *)
(*   notice    a notification comes while two executions overlap, or one     *)
(*             dies and the other follows;                                  *)
(*   retry     a failed job is retried by another account;                  *)
(*   overlap   two executions overlap, with the occurrences of two          *)
(*             schedules waiting;                                           *)
(* The runs that expect a violation leave nothing out.                      *)
(***************************************************************************)
EXTENDS CrmReconciliation, TLC

CONSTANTS w1, w2, none, nojob, e1
VARIABLE scenario

MCKind     == [j \in Jobs |-> "CRM_SYNC"]
MCResource == [j \in Jobs |-> "crm"]

\* What a scenario leaves out.
NoRetry == \A j \in Jobs : actor'[j] \notin Retriers
NoHand  == \A p \in ManualPullers : step'[p] = "idle"
ByHandFirst == clock = 0 \/ NoHand
InTurns == \A v, w \in Workers : v # w => pc'[v] = "idle" \/ pc'[w] = "idle"

ScheduleStep ==
    /\ scenario = "schedule" /\ CrmNext
    /\ source' = {} /\ crashes' = 0 /\ NoRetry /\ ByHandFirst
NoticeStep ==
    /\ scenario = "notice" /\ CrmNext
    /\ clock' <= 2 /\ edits' <= 1 /\ NoRetry /\ NoHand /\ (crashes' = 0 \/ InTurns)
RetryStep ==
    /\ scenario = "retry" /\ CrmNext
    /\ edits' <= 1 /\ source' = {} /\ NoHand /\ InTurns
OverlapStep ==
    /\ scenario = "overlap" /\ CrmNext
    /\ clock' <= 2 /\ intake' = intake /\ crashes' = 0 /\ NoRetry /\ NoHand
CrmStep == ScheduleStep \/ NoticeStep \/ RetryStep \/ OverlapStep

WholeSpec ==
    /\ scenario = "any" /\ CrmInit
    /\ [][CrmNext /\ UNCHANGED scenario]_<<scenario, vars>>
=============================================================================
