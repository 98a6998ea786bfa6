SPECIFICATION Spec
CONSTANTS
  prod = prod
  dev = dev
  stage = stage
  f1 = f1
  f2 = f2
  Contexts = {prod, dev, stage}
  NoContext = nocontext
  pods = pods
  services = services
  Kinds = {pods, services}
  NoKind = nokind
  Files = {f1, f2}
  Guard <- MCGuard
  ReadOnly = {stage}
  MaxGen = 2
  MaxRequests = 2
  MaxEdits = 1
INVARIANT DeletesKindNamed
