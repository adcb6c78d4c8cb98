SPECIFICATION FairSpec
CONSTANT Elements = {1, 2, 3, 4, 5, 6, 7}
INVARIANTS
  NoNullRead
  LinksAgree
  Ordered
  RedBlack
PROPERTIES
  Implements
  Returns
