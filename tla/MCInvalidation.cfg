SPECIFICATION FairSpec
CONSTANTS
  Keys = {k1, k2, k3}
  Inputs = {t1}
  Outputs = {1}
  None = None
CHECK_DEADLOCK FALSE
INVARIANT ExactlyDependents
INVARIANT AsOneStep
INVARIANT NoKeyTwice
PROPERTY Terminates
