SPECIFICATION Spec
CONSTANTS
  Thread <- MCThread
  CallsOf <- MCConnecting
INVARIANT NoCircularWait
