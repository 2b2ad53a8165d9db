CONSTANTS
  None = None
  Requests <- MCRequests
SPECIFICATION Spec
INVARIANTS CallIsBound HeldOnlyByThrows
