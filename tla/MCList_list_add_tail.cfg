SPECIFICATION SpecWithAddTail
CONSTANTS
    n1 = n1
    n2 = n2
    n3 = n3
    n4 = n4
    Nodes <- FourNodes
    Anchor = Anchor
    Null = Null
SYMMETRY NodeSymmetry
INVARIANT RingIntactWithAddTail
