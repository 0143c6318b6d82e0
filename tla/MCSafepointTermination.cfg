SPECIFICATION FairSpec
CONSTANTS
    n1 = n1
    None = None
    Notifiers <- OneNotifier
    MaxNotify = 0
    MaxTimeouts = 0
    MaxWorlds = 1
    MaxInstalls = 0
PROPERTY TerminationDelivered
