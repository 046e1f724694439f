SPECIFICATION Spec
CONSTANTS
    Ids <- MCIds
    Row <- MCRow
    Initial <- MCInitial
    Requests <- MCRequests
    Work <- MCWork
    Arrivals <- MCArrivals
INVARIANTS
    AccountLeavesNothing
    CirclesAreInOneTable
PROPERTIES
    RefusedForNewRowsOnly
CHECK_DEADLOCK FALSE
