\* The plugin's Run loop after kubelet restarts and Register errors: a second
\* Register error while the first is still buffered in errChan.
CONSTANTS
    Boards = {0}
    SocIDs <- MCSocIDs
    Width = 16
    MaxRestarts = 0
    MaxKubeletRestarts = 1
    MaxRegisterFailures = 1
SPECIFICATION Spec
CHECK_DEADLOCK FALSE
PROPERTY RegisteredEventually
