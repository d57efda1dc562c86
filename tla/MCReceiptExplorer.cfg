SPECIFICATION Spec
CONSTANTS
    a = a
    b = b
    None = None
    Sessions = {a, b}
    Versions = {0, 1}
    Receipts <- MCReceipts
    MaxChecks = 1
INVARIANTS
    TypeOK
    OneReceiptOneRoot
    AnchoredWasAttached
    NoFalseAlarm
