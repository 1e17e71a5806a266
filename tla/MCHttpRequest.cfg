CONSTANTS
    Streams <- MCStreams
    MaxTail = 5
SPECIFICATION Spec
INVARIANTS
    TypeOK
    FragmentationIrrelevant
    ParsesTheGrammar
CHECK_DEADLOCK FALSE
