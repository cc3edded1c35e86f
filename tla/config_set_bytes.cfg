\* SetBytes called again after a call has parsed the bytes.
SPECIFICATION Spec
CONSTANTS
  Caller = {c1, c2}
  File = {f1}
  Content = {good, bad}
  Valid = {good}
  Missing = missing
  Bytes = bytes
  None = none
PROPERTY SetBytesUsed
