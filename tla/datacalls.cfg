SPECIFICATION Spec
CONSTANTS
 Cids = {1,2}
 MaxEvents = 3
 MaxRetries = 1
INVARIANTS UsersCounted BusyIsUsed WaiterIsWoken
PROPERTY KeptWhileUsed
CHECK_DEADLOCK FALSE
