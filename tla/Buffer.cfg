CONSTANTS
    Radix = 2
    IntSizes = {1, 2}
    kCheapPrepend = 1
    kInitialSize = 1
    kExtraSize = 2
    MaxLen = 2
    MaxSize = 6
SPECIFICATION Spec
PROPERTY ImplementsQueue
