\* MaxTag = 5: the five swaps of the shortest ABA attempt (push the chain, pop,
\* pop, push the first node back, then the delayed Pop's own swap).
CONSTANTS
    n1 = n1
    n2 = n2
    n3 = n3
    Junk = Junk
    Threads = {t1, t2}
    Null = Null
    MaxTag = 5
    Nodes <- MCNodes
    Chains <- MCChains
    Words <- MCWords
SPECIFICATION Spec
INVARIANTS Linked AbaSafe
PROPERTIES RefinesFreeList
SYMMETRY ThreadSymmetry
