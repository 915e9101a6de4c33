SPECIFICATION FairSpec
CONSTANTS
  a1 = a1 a2 = a2 b1 = b1 b2 = b2 bankA = bankA bankB = bankB r1 = r1 r2 = r2
  Line = {a1, a2, b1, b2}
  Bank = {bankA, bankB}
  Row = {r1, r2}
  None = None
  BankOf <- MCBankOf
  RowOf <- MCRowOf
  SIZE <- MCSize
  HIGH_WM = 3
  LOW_WM = 2
  MaxRequest = 5
INVARIANTS BanksServeQueue CountersAgree WakeupsAreFresh
PROPERTIES ServesTheCache EverythingServed
CHECK_DEADLOCK FALSE
