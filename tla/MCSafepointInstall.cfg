\* A second task is handed over while the VM thread installs the first.
SPECIFICATION FairSpec
CONSTANTS
    n1 = n1
    None = None
    Notifiers <- OneNotifier
    MaxNotify = 0
    MaxTimeouts = 0
    MaxWorlds = 0
    MaxInstalls = 2
PROPERTY InstallDelivered
