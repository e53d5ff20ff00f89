SPECIFICATION Spec
CONSTANTS
    l1 = l1
    l2 = l2
    l3 = l3
    m1 = m1
    admin = admin
    Runs = {l1, l2, l3, m1}
    LocalRuns = {l1, l2, l3}
    Admins = {admin}
    Policies <- SomePolicies
    FirstPolicy <- Narrow
INVARIANTS
    NoLostWakeUp
    SlotAccounting
    NoOverDispatch
    NoRunWaits
PROPERTIES
    CapacityIsUsed
    ImplementsSlotPool
