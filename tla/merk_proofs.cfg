SPECIFICATION Spec
CONSTANTS
  ItemA = ItemA
  Tree1 = Tree1
  EmptyTree = EmptyTree
  Keys <- MCKeys
  Entry <- MCEntry
  Items = {ItemA}
  Subtrees = {Tree1}
  EmptyTrees = {EmptyTree}
  Pointer = Pointer
  NoKey = NoKey
  AnyProof = AnyProof
  MaxNodes = 3
CHECK_DEADLOCK FALSE
INVARIANTS
  RevealedIsCommitted
  AbsentIsAbsent
  HonestProofsPass
