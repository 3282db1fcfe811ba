SPECIFICATION Spec
CONSTANTS
  Files <- MCFiles
  Includes <- MCIncludes
  CppHeaders <- MCCppHeaders
  ThirdParty <- MCThirdParty
  Canonical <- MCCanonical
  Required <- MCRequired
  Disks <- MCDisks
  MaxLines = 5
INVARIANTS OrderExact NeverForgotten DuplicatesReal EndReportsReal
CHECK_DEADLOCK FALSE
