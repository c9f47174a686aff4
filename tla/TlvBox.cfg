SPECIFICATION Spec
CONSTANTS
    Boxes = {b1, b2}
    ShortTypes = {1}
    IntTypes = {2}
    CharTypes = {3}
    StringTypes = {300}
    ObjectTypes = {4}
    Numbers = {258}
    Little = TRUE
    MaxBytes = 20
INVARIANT SizeExact
INVARIANT RoundTrip
