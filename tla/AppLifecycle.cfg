CONSTANTS
    Names = {canopen, wireless, display}
    MaxModules = 3
SPECIFICATION AppSpec
INVARIANTS
    RunningIsWhole
