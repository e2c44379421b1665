\* A word has two bytes, a byte two values, an address one byte.
CONSTANTS
  Deployments = 5
  Amounts = {0, 1}
  Fees = {1, 2}
  Inputs <- MCInputs
  abiWordSize = 2
  ByteValues = 2
  MaxWord = 3
  MaxAddress = 1
  MaxUint8 = 1
  MaxRevertDataBytes = 12
  MaxWords = 4
SPECIFICATION ClientSpec
INVARIANTS
  VerdictOfAllChecks
  ConnectionHasOwner
  ValueIsDue
  ToldAsEncoded
PROPERTIES
  StartEnds
