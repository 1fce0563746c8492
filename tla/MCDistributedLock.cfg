CONSTANTS
    Absent = Absent
    Objects = {l1, l2, l3, l4}
    Unlockers = {l1, l2, l3, l4}
    Breakers = {l1, l2, l3, l4}
    MaxDate = 2
SPECIFICATION DistributedSpec
INVARIANTS NoOrphan
SYMMETRY MCSymmetry
