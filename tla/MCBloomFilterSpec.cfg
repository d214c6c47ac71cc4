SPECIFICATION Spec
CONSTANTS
  BitSize = 10
  HashCount = 2
  HashOne <- MCHashOne
  HashTwo <- MCHashTwo
  MaxAdds = 4
INVARIANTS
  TypeOK
  AddedIsReported
  ReportedIsCovered
CHECK_DEADLOCK FALSE
