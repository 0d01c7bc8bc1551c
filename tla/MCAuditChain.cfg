SPECIFICATION ChainSpec
CONSTANTS
  NoEntry = NoEntry
  Txns = {c1, c2, c3}
  Owners = {t1, t2}
  EntryIds = {1, 2, 3}
  MaxClock = 2
SYMMETRY Symmetry
INVARIANTS
  ForksNeedOverlapOrTie
