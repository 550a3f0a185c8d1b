SPECIFICATION StaffSpec
CONSTANTS
    Humans = {"ana", "ben"}
    StandIn = "dev"
    MaxTasks = 5
INVARIANT LastAdministratorStays
CHECK_DEADLOCK FALSE
