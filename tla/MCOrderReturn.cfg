CONSTANTS
  v1 = v1
  v2 = v2
  User = {v1, v2}
  Ordered = 2
  Packings <- FewPackings
  MaxReturns = 2
SPECIFICATION Spec
INVARIANT TypeOK
PROPERTY WizardsReturnWhatIsLeft
PROPERTY GoodsAreCounted
SYMMETRY WizardSymmetry
CHECK_DEADLOCK FALSE
