SPECIFICATION Spec
CONSTANTS
  Pages = {p1, p2}
  None = None
  MaxInputs = 4
INVARIANTS
  FieldsStayOnTheirPage
CHECK_DEADLOCK FALSE
