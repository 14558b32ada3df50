SPECIFICATION Spec
CONSTANTS
    Companies = {c1}
    Emissions = {e1, e2, e3}
    Saves = {s1}
    Series = {ser1}
    EmissionTypes = {normal}
    Normal = normal
    Edits = {}
    Limit = 9
    MaxPeriod = 1
SYMMETRY MCSymmetry
INVARIANT NumbersUniqueAlways
CHECK_DEADLOCK FALSE
