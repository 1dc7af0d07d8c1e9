SPECIFICATION FairSpec
CONSTANTS
  s1 = s1
  s2 = s2
  btc = btc
  f1 = f1
  f2 = f2
  f3 = f3
  None = None
  Other = Other
  Strategies <- MCStrategies
  Instruments <- MCInstruments
  Fills <- MCFills
  StrategyOf <- MCStrategyOf
  InstrumentOf <- MCInstrumentOf
INVARIANTS TypeOK LedgersAgree NoCircularWait
PROPERTIES LedgerNeverForgets ImplementsBook FillSettles
