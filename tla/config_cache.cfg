\* Three goroutines, a file that changes under them.
SPECIFICATION Spec
CONSTANTS
  Caller = {c1, c2, c3}
  File = {f1}
  Content = {good, bad}
  Valid = {good}
  Missing = missing
  Bytes = bytes
  None = none
INVARIANTS TypeOK ConfOrError CallersAgree OneReadPerFile
PROPERTIES AbstractSpec CallsReturn
