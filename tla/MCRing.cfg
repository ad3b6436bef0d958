\* A ring of four places: header and tail pass each other in every position,
\* full and empty.
CONSTANTS
    v1 = v1
    v2 = v2
    v3 = v3
    Nil = Nil
    Value = {v1, v2, v3}
    size = 4
SPECIFICATION Spec
INVARIANTS TypeOK NilOutside
PROPERTIES ImplementsFIFO
