SPECIFICATION Spec
CONSTANTS
  Key = {1, 2, 3}
  HashValue <- MCHashValue
  ValuesOf <- FixedSize
  MaxSizes = {10, 11}
  Data <- MCData
  Types = {1}
  Cap = 25
  Absent = Absent
INVARIANTS TypeOK ChainExact CountsTags StaysValid
PROPERTY ImplementsMap
