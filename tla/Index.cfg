\* Three files the model reads, one of them the gateway, and two processes on one cache.
SPECIFICATION Spec
CONSTANTS
  gateway = gateway
  views = views
  models = models
  handlers = handlers
  initial = initial
  Initially <- MCInitially
  File = {gateway, views, models, handlers}
  Edited = {gateway, handlers}
  Dark = {gateway, views, models}
  Gateway = gateway
  Version = {initial, second, huge}
  Huge = {huge}
  None = None
  NoHash = NoHash
  Proc = {p, q}
  MaxEdits = 1
  MaxChanges = 1
  MaxPasses = 2
INVARIANTS
  ServedIsCurrent
  CacheCoversTheIndex
  ReadRoutesAreServed
SYMMETRY Symmetry
CHECK_DEADLOCK FALSE
