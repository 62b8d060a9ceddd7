\* Two writers, two addresses, up to two slots, faults until the clock reads 4,
\* and time enough afterwards for the last disable to expire.
CONSTANTS
  t1 = t1
  t2 = t2
  a1 = a1
  a2 = a2
  a3 = a3
  NoAddr = NoAddr
  Thread <- MCThread
  Addr <- MCTwoAddr
  MaxSlots = 2
  SlotDisableTime = 2
  AddrDisableMaxNum = 1
  ReloadInterval = 1
  Epoch = 2
  MaxClock = 5
  FaultsUntil = 4
  MaxFaults = 2
  BadMaps = FALSE
SPECIFICATION FairSpec
PROPERTY
  TableConverges
