SPECIFICATION Spec
CONSTANT User = {u1, u2}
CONSTANT PutOutcomes = {TRUE}
PROPERTY AddOnlyStrangers
