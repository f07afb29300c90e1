\* Two threads and the resolver push; the destructor comes at any moment.
CONSTANTS
    Threads = {t1, t2}
    Resolver = resolver
    MaxHandlers = 4
SPECIFICATION FairSpec
INVARIANTS
    TypeOK
    NoLostWakeup
    WatcherOutlivesThreads
PROPERTIES
    ImplementsMailbox
    HandlersAreCalled
