\* The context the client key is parsed into.
SPECIFICATION Spec
CONSTANT MaxAddresses = 1
INVARIANT KeyContextEmpty
