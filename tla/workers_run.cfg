CONSTANTS
    mail = mail  jobs = jobs  clock = clock
    Mail = Mail  Jobs = Jobs  Clock = Clock
    Names = {mail, jobs, clock}
    Classes = {Mail, Jobs, Clock}
    NameOf <- NamesOfClasses
    Shadow = {Clock}
    Requests <- SomeRequests
    MaxStarts = 2
SPECIFICATION FairSpec
INVARIANTS TypeOK NothingLeftRunning RunsWhatWasAsked FailedStartIsSeen
PROPERTIES SignalStops StopsInReverse
