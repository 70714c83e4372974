SPECIFICATION Spec
CONSTANTS
  Key = {1, 2, 3}
  HashValue <- MCHashValue
  ValuesOf <- AnySize
  MaxSizes = {12}
  Data <- MCData
  Types = {1}
  Cap = 25
  Absent = Absent
PROPERTY ImplementsMap
