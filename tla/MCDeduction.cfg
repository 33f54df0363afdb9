CONSTANTS
  Threads = {t1, t2}
  MaxCalls = 3
  MaxLost = 2
  Inputs <- MCInputs
  Valid <- MCValid
  Ext <- MCExt
  Gopkgin <- MCGopkgin
  Begins <- MCBegins
  Meta <- MCMeta
  Roots <- MCRoots
SPECIFICATION Spec
INVARIANT RootRight
INVARIANT SchemeHonored
PROPERTY EveryCallReturns
CHECK_DEADLOCK FALSE
