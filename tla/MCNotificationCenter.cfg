\* Three threads; an observation by name and one by object at most twice.
SPECIFICATION Spec
CONSTANTS
    n1 = n1
    n2 = n2
    o1 = o1
    Nil = Nil
    Threads = {t1, t2, t3}
    Names = {n1, n2}
    Objects = {o1}
    Observers = {x}
    Slots = {s1, s2}
    Stripes = 2
    StripeOf <- MCStripeOf
    Additions <- MCAdditions
    Removals <- MCRemovals
    Posts <- MCPosts
INVARIANTS TypeOK PostingCounted FreedWhenDone RaceFree EveryoneTold NoCircularWait
SYMMETRY MCSymmetry
