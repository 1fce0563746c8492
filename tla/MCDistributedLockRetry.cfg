CONSTANTS
    Absent = Absent
    Objects = {l1, l2}
    Unlockers = {l1, l2}
    Breakers = {}
    MaxDate = 0
SPECIFICATION DistributedSpec
INVARIANTS Exclusive
