CONSTANTS
    N = 3
    MaxEvents = 1
    Pager <- MCPager
    Boot <- MCBoot
    Sleepers <- MCSleepers
SPECIFICATION Spec
INVARIANTS
    TimeoutEventPending
    ArmedOnlyWhileWaiting
PROPERTIES
    ImplementsRendezvous
    WaitsEnd
