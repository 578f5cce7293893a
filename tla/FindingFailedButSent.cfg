\* Coinbase makes the transfer and its answer is lost.
CONSTANTS
  Handlers = {h1}
  Idems = {i1}
  Amounts = {1}
  Snapshots <- OneWallet
  None = None
SPECIFICATION Spec
SYMMETRY Symmetry
INVARIANTS FailedMeansNotExecuted
