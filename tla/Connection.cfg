\* Two flows of one account, callbacks repeated at will, two withdrawals that
\* refresh the tokens meanwhile and a valuation that reads.
CONSTANTS
  States = {s1, s2}
  Callbacks = {c1, c2}
  Senders = {w1, w2}
  Readers = {r1}
  None = None
  MaxRotations = 1
SPECIFICATION FairSpec
INVARIANTS ExchangedOnce OneFlow StoredIsHonoured ValuedIsStored MissExplained
PROPERTIES EveryCallbackEnds
