\* Every pair of requests under one idem, texts of one line and of two.
CONSTANTS
  Assets <- TwoAssets
  Amounts <- Spellings
  Recipients <- FewTexts
  Networks <- FewTexts
  WalletsOf <- Wallets
  Places = 2
SPECIFICATION Spec
INVARIANTS ReplayOfTheSame
