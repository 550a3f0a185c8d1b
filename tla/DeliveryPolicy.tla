--------------------------- MODULE DeliveryPolicy ---------------------------
EXTENDS Naturals

(***************************************************************************)
(* The pure rules of customer delivery: the state machine of one delivery   *)
(* (one CampaignRecipient row), the state machine of a campaign, the        *)
(* consequences of a provider event, and the last veto before a submission. *)
(* Nothing here has state; the state machines of the other modules use      *)
(* these operators as their guards.                                         *)
(***************************************************************************)

(***************************************************************************)
(* Deliveries.  NOROW stands for "no CampaignRecipient row exists yet".     *)
(* The legacy state SENT of the code is in the table and in no action.      *)
(***************************************************************************)
DeliveryState ==
    {"PENDING", "READY", "SENDING", "ACCEPTED", "DELIVERED", "BOUNCED",
     "COMPLAINED", "FAILED", "UNCERTAIN", "SUPPRESSED", "SENT"}

ALLOWED ==
    [PENDING    |-> {"READY", "SUPPRESSED"},
     READY      |-> {"SENDING", "SUPPRESSED"},
     SENDING    |-> {"ACCEPTED", "FAILED", "UNCERTAIN"},
     ACCEPTED   |-> {"DELIVERED", "BOUNCED", "COMPLAINED", "FAILED"},
     DELIVERED  |-> {"COMPLAINED"},
     UNCERTAIN  |-> {"DELIVERED", "BOUNCED", "COMPLAINED", "FAILED"},
     FAILED     |-> {"READY"},
     BOUNCED    |-> {},
     COMPLAINED |-> {},
     SUPPRESSED |-> {},
     SENT       |-> {"DELIVERED", "BOUNCED", "COMPLAINED"}]

CanTransition(from, to) == to \in ALLOWED[from]

(***************************************************************************)
(* Campaigns.  REJECTED and the two approval states are passed through      *)
(* inside the scheduling transaction and are never committed by it.         *)
(***************************************************************************)
CAMPAIGN_TRANSITIONS ==
    [DRAFT            |-> {"PENDING_APPROVAL"},
     PENDING_APPROVAL |-> {"APPROVED", "REJECTED"},
     REJECTED         |-> {"DRAFT"},
     APPROVED         |-> {"SCHEDULED", "SENDING", "DRAFT"},
     SCHEDULED        |-> {"SENDING", "DRAFT", "CANCELED"},
     SENDING          |-> {"SENT", "FAILED"},
     SENT             |-> {},
     FAILED           |-> {},
     CANCELED         |-> {}]

CampaignMayMove(from, to) == to \in CAMPAIGN_TRANSITIONS[from]

(***************************************************************************)
(* What a normalized provider event obliges the platform to do.  "NONE" is  *)
(* the null of the code.                                                    *)
(***************************************************************************)
ProviderEventType ==
    {"ACCEPTED", "DELIVERED", "OPENED", "CLICKED", "HARD_BOUNCE",
     "SOFT_BOUNCE", "COMPLAINT", "FAILED", "UNSUBSCRIBE"}

ConsequenceOf(type) ==
    [deliveryState    |-> CASE type = "ACCEPTED"    -> "ACCEPTED"
                            [] type = "DELIVERED"   -> "DELIVERED"
                            [] type = "HARD_BOUNCE" -> "BOUNCED"
                            [] type = "COMPLAINT"   -> "COMPLAINED"
                            [] type = "FAILED"      -> "FAILED"
                            [] OTHER                -> "NONE",
     suppression      |-> IF type \in {"HARD_BOUNCE", "COMPLAINT"}
                            THEN type ELSE "NONE",
     markEmailInvalid |-> type = "HARD_BOUNCE",
     unsubscribe      |-> type = "UNSUBSCRIBE"]

(***************************************************************************)
(* The live veto.  The facts are what is known of the address at the moment *)
(* of the decision; the first veto that holds, in this order, is the reason *)
(* reported.  requireLanguage is "ANY" for a campaign without a language.   *)
(***************************************************************************)
DispatchVetoFacts ==
    [isUnsubscribed : BOOLEAN,
     isSuppressed   : BOOLEAN,
     emailStatus    : {"VALID", "INVALID", "UNKNOWN"},
     consentStatus  : {"GRANTED", "DENIED", "UNKNOWN"},
     language       : {"HE", "AR", "UNKNOWN"}]

Vetoes(facts, requireLanguage, requireExplicitConsent) ==
    << [holds  |-> facts.isUnsubscribed,
        reason |-> "UNSUBSCRIBED"],
       [holds  |-> facts.isSuppressed,
        reason |-> "SUPPRESSED"],
       [holds  |-> facts.emailStatus = "INVALID",
        reason |-> "INVALID_EMAIL"],
       [holds  |-> facts.consentStatus = "DENIED",
        reason |-> "CONSENT_DENIED"],
       [holds  |-> requireExplicitConsent /\ facts.consentStatus # "GRANTED",
        reason |-> "CONSENT_NOT_CONFIRMED"],
       [holds  |-> requireLanguage # "ANY" /\ facts.language # requireLanguage,
        reason |-> "LANGUAGE_UNKNOWN"] >>

DecideDispatch(facts, requireLanguage, requireExplicitConsent) ==
    LET vetoes == Vetoes(facts, requireLanguage, requireExplicitConsent)
    IN  IF \E i \in 1..6 : vetoes[i].holds
          THEN vetoes[CHOOSE i \in 1..6 :
                        /\ vetoes[i].holds
                        /\ \A j \in 1..6 : j < i => ~vetoes[j].holds].reason
          ELSE "SEND"
=============================================================================
