\* One notifier at a time, with timeouts, stop-the-worlds and installs in between.
SPECIFICATION FairSpec
CONSTANTS
    n1 = n1
    None = None
    Notifiers <- OneNotifier
    MaxNotify = 2
    MaxTimeouts = 1
    MaxWorlds = 1
    MaxInstalls = 1
INVARIANTS GrantedMeansParked ReportedMeansParked PendingIsPolled
PROPERTIES TerminationPolled NotifyReturns ParkedResumes
