\* One call of eio_do_io with up to three transfers (an unaligned head, an
\* aligned middle, an unaligned tail), both modes and both mtypes, beside
\* the barrier flushes of one zero-size bio and one activation, with and
\* without a queue on the source disk.
CONSTANTS
    MaxBios = 3
    Errors = {"ok", "eio"}
SPECIFICATION DispatchSpec
INVARIANTS
    TypeOK
    ContextOutlivesTransfers
    BarrierRefsMatchHolders
PROPERTIES
    AbsSpec
    CallerFinishes
    OrigEndedOnce
\* Both the I/O and the flushes are finite: once everything has ended and
\* returned the system stops.
CHECK_DEADLOCK FALSE
