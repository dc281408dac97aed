SPECIFICATION FairSpec
CONSTANTS
  User = {u1, u2}
  Listener = {l1, l2}
  Context = {c1, c2}
  Handle = {h1, h2}
  MaxInit = 3
  None = None
INVARIANTS
  TypeOK
  ContextsSound
  CallbacksSound
PROPERTY CallsReturn
