\* Every way to insert, erase and replace ten nodes.
SPECIFICATION Spec
CONSTANTS
    Nodes = {1, 2, 3, 4, 5, 6, 7, 8, 9, 10}
    Key <- PairKey
INVARIANTS RedBlack TreeIsOrder
