CONSTANTS
    Width = 8
    MinSlot = 3
SPECIFICATION Spec
INVARIANTS
    SlotIsFree
    ComputesClosedForm
CHECK_DEADLOCK FALSE
