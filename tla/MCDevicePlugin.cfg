\* Round trip of the published board capacity for every provider entry, and
\* the plugin's serve/register loop across kubelet restarts and Register errors.
CONSTANTS
    Boards = {0}
    SocIDs <- MCSocIDs
    Width = 16
    MaxRestarts = 1
    MaxKubeletRestarts = 2
    MaxRegisterFailures = 1
SPECIFICATION Spec
CHECK_DEADLOCK FALSE
INVARIANTS
    PublishedRoundTrip
PROPERTIES
    RegisteredUnlessBlocked
