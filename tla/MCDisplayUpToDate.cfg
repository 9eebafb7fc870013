SPECIFICATION Spec
CONSTANTS
  u1 = u1  u2 = u2  t1 = t1  t2 = t2
  Key <- MCKey
  Hash <- MCHash
  TABLE_SIZE = 1
  Handler = {h1}
  Text <- MCText
  Sender <- MCSender
  MaxShown = 2
INVARIANT DisplayUpToDate
