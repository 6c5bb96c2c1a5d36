CONSTANTS
  MaxCalls = 3
  Custom = {"DELETE"}
  MaxSet = 2
SPECIFICATION Spec
CONSTRAINT FewSettings
CHECK_DEADLOCK FALSE
INVARIANTS TypeOK NothingCarriesOver MethodIsOwn BodyIsAsked ResponsesAreOwn
