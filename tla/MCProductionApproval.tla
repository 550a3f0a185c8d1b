------------------------ MODULE MCProductionApproval ------------------------
EXTENDS ProductionApproval
MCFacts == {[lang |-> "HE", ok |-> TRUE, granted |-> TRUE], [lang |-> "AR", ok |-> TRUE, granted |-> TRUE],
            [lang |-> "HE", ok |-> FALSE, granted |-> FALSE]}
MCCriteria == {{}, {"ann"}}
=============================================================================
