SPECIFICATION Spec
CONSTANTS
  Addr = {2, 3}
  Word = {1, 2, 3, 4, 5}
  Stack = {1, 5}
  ALL_ONES = 4
  DEADBEEF = 5
  MaxAccess = 3
INVARIANTS LinkInv RepliesOwed UnlinkedFails ReplyIsOwn ReadGivesAnswer
PROPERTIES AccessReturns
