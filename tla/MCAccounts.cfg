SPECIFICATION Spec
CONSTANT Mail = {m1, m2}
CONSTANT Name = {n1, n2}
CONSTANT Password = {p1, p2}
CONSTANT NoMail = NoMail
CONSTANT NoPassword = NoPassword
CONSTANT MaxId = 2
CONSTANT IdPutOutcomes = {TRUE}
SYMMETRY Symmetry
INVARIANTS TypeOK UniqueIds IdKeysSound AccountComplete RetiredIds
