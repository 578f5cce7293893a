\* Two requests of one idem, two wallets, reconnections, requests cut off.
CONSTANTS
  Handlers = {h1, h2}
  Idems = {i1}
  Amounts = {1, 2}
  Snapshots <- AnySnapshot
  None = None
SPECIFICATION Spec
SYMMETRY Symmetry
INVARIANTS NoSendAfterFinal BalanceHeld OneRequestPerIdem AcceptedIsExecuted TransferHasRow
PROPERTIES RefreshedTokensKept ImplementsLedger
