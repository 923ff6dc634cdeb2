SPECIFICATION RuntimeSpec
CONSTANTS
    MaxFrames = 3
INVARIANTS
    FramesInOrder
PROPERTIES
    RefinesSlaveLatch
