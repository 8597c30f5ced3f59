SPECIFICATION Spec
CONSTANTS
    c1 = c1  c2 = c2
    Clients = {c1, c2}
    Totals = {1}
    Amounts = {1, 2}
    MaxPeriods = 2
SYMMETRY Alike
INVARIANTS
    UsedIsSpent
    NoOverspend
