CONSTANT Width = 3
SPECIFICATION Spec
INVARIANTS ResultIsExact
