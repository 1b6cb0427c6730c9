SPECIFICATION Spec
CONSTANTS
    AddrBits = 4
    Byte = {0, 1}
    Entries = 1
    Layout <- Map
    RomWord <- RomBytes
    Endian <- AllOrders
    StoreAt <- Stores
    NoRange = NoRange
INVARIANTS TypeOK Coherent FindAgrees MemoryIsFlat LanesExact
PROPERTIES ImplementsFlatMemory
