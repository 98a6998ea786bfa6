SPECIFICATION Spec
CONSTANTS
  prod = prod
  dev = dev
  stage = stage
  f1 = f1
  f2 = f2
  Contexts = {prod, dev, stage}
  NoContext = nocontext
  pods = pods
  services = services
  Kinds = {pods}
  NoKind = nokind
  Files = {f1, f2}
  Guard <- MCGuard
  ReadOnly = {stage}
  MaxGen = 2
  MaxRequests = 3
  MaxEdits = 1
SYMMETRY MCSymmetry
INVARIANTS AppliesWhatWasShown GuardrailsHold RowsDeletedWhereShown
