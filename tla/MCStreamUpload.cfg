\* Two writers, three addresses, up to three slots: every interleaving of writes,
\* re-routes, disables and (also broken) reloads.
CONSTANTS
  t1 = t1
  t2 = t2
  a1 = a1
  a2 = a2
  a3 = a3
  NoAddr = NoAddr
  Thread <- MCThread
  Addr <- MCAddr
  MaxSlots = 3
  SlotDisableTime = 2
  AddrDisableMaxNum = 1
  ReloadInterval = 1
  Epoch = 2
  MaxClock = 4
  FaultsUntil = 5
  MaxFaults = 2
  BadMaps = TRUE
SPECIFICATION Spec
SYMMETRY MCSymmetry
INVARIANTS
  TypeOK
  SomeSlotUsable
  FewAddrsDisabled
  DisabledOnlyIfReported
