SPECIFICATION FairSpec
CONSTANT BufLen = 4
CONSTANT Numbers = 4
CONSTANT Lengths = {0, 1, 4}
CONSTANT Uses <- MCUses
CONSTANT None = none
INVARIANT TypeOK
INVARIANT Armed
PROPERTY BytesInOrder
PROPERTY CallsReturn
