----------------------- MODULE FwIsoResourceBandwidth -----------------------
(***************************************************************************)
(* hinoko_fw_iso_resource_calculate_bandwidth: the units of bandwidth for  *)
(* a payload at a speed.  A unit is the time of a quadlet at S1600, which  *)
(* is the time of a byte at S400.                                          *)
(***************************************************************************)
EXTENDS Integers

CONSTANT UintSize  \* the number of values of a guint

\* HinokoFwScode
S100 == 0
S200 == 1
S400 == 2
S800 == 3
S1600 == 4
S3200 == 5
Scodes == S100..S3200

\* 1 << n
Shift(n) == CASE n = 0 -> 1 [] n = 1 -> 2 [] n = 2 -> 4 [] n = 3 -> 8

\* Three quadlets of header, and the payload in whole quadlets.
BytesPerPacket(bytes_per_payload) ==
  (3 * 4 + (((bytes_per_payload + 3) % UintSize) \div 4) * 4) % UintSize

CalculateBandwidth(bytes_per_payload, scode) ==
  LET bytes == BytesPerPacket(bytes_per_payload)
  IN  IF scode <= S400 THEN (bytes * Shift(S400 - scode)) % UintSize
                       ELSE bytes \div Shift(scode - S400)

-----------------------------------------------------------------------------
(* The time of a byte in eighths of a unit, the byte at S3200.             *)
TimeOfByte(scode) ==
  CASE scode = S100 -> 32 [] scode = S200 -> 16 [] scode = S400 -> 8
    [] scode = S800 -> 4 [] scode = S1600 -> 2 [] scode = S3200 -> 1

=============================================================================
