SPECIFICATION Spec
CONSTANTS
  Stale = Stale
  BytesPerPayload = 2
  PayloadsPerBuffer = 2
  Payloads = {1, 2}
  MaxOutstanding = 2
  Ids = 3
  Reuse = FALSE
INVARIANTS
  TypeOK
  AlignedRunSendsPayloads
  QueuedInOrder
  PayloadsInBuffer
