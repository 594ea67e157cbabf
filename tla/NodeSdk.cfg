SPECIFICATION Spec
CONSTANTS
  t1 = t1
  t2 = t2
  c1 = c1
  c2 = c2
  Tasks = {t1, t2}
  Chains = {c1, c2}
  NoChain = none
  MaxInits = 2
  MaxOpen = 3
SYMMETRY Symmetry
INVARIANTS IInv ChainKept ContextComesBack
