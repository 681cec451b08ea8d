SPECIFICATION Spec
CONSTANT
  MaxPolls = 3
INVARIANTS
  NoPhantomPress
