SPECIFICATION Spec
CONSTANTS
    Series = {s1, s2, s3, s4}
    Others = {o1}
    PValues = {1, 2, 3, 4, 6}
    FiredBelow = 4
    Scale = 10
    FDRTarget = 4
    Families = {0, 4, 5}
INVARIANTS TypeOK AcceptsDiscoveries NeverLooser Conserved
