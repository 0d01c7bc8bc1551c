SPECIFICATION ChainSpec
CONSTANTS
  NoEntry = NoEntry
  Txns = {c1}
  Owners = {t1}
  EntryIds = {1, 2, 3}
  MaxClock = 2
SYMMETRY Symmetry
INVARIANT
  ChainIsLinear
