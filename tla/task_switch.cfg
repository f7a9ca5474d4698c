SPECIFICATION Spec
CONSTANTS
    Marks = {"a", "b"}
    Depth = 2
INVARIANTS TypeOK StackBalanced
PROPERTY IsCoroutine
