\* Every request of the account is answered, one idem, one wallet.
CONSTANTS
  Handlers = {h1, h2}
  Idems = {i1}
  Amounts = {1}
  Snapshots <- OneWallet
  None = None
SPECIFICATION FairSpec
PROPERTIES EveryRequestEnds
