\* Up to five wallets, two a page: two pages are read, of three there may be.
CONSTANTS
  Retries = 2
  MaxPages = 2
  PageSize = 2
  Wallets = {1, 2, 3, 4, 5}
  Open <- OpenAtFirst
SPECIFICATION Spec
CHECK_DEADLOCK FALSE
INVARIANTS TypeOK StoredIsWhole GivesUpForAReason
