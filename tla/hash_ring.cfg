\* Three nodes with two points each, in every arrangement on six positions.
SPECIFICATION Spec
CONSTANTS
    NodeId = {a, b, c}
    VirtualNodes = 2
    Positions = 6
INVARIANTS RingIsRoster NearestFirst HolderIsNextNode
PROPERTIES OnlyNeighboursMove
