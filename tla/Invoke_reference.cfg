\* The whole of INVOKE, reference_wrappers and unions included.
SPECIFICATION Spec
CONSTANTS
  MaxWraps = 0
  None = None
INVARIANT RealizesINVOKE
