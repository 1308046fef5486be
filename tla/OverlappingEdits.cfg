SPECIFICATION AdminSpec
CONSTANTS
    r1 = r1
    r2 = r2
    r3 = r3
    b1 = b1
    b2 = b2
    b3 = b3
    n1 = n1
    n2 = n2
    n3 = n3
    a1 = a1
    a2 = a2
    d1 = d1
    f1 = f1
    NoRequest = NoRequest
    Requests = {r1, r2}
    FileNames = {f1}
    Files <- ThreeFiles
    Brands = {b1, b2, b3}
    Values = {n1, n2, n3, a1, a2, d1}
    Seeded <- TwoBrands
    Edits <- SomeEdits

PROPERTIES
    GivenListsReplace
