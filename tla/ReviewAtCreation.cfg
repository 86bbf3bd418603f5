CONSTANTS
  AccountOrder <- MCAccounts
  KeyOrder <- MCKeys
  MaxRecursion = 1
  Txs <- MCTxs
  Requires <- MCRequires
  MustReview <- MCGovern
  NoReview <- MCPay
  Committee = "c"
  Locked <- MCLocked
  CommitteeReview = 1
  MaxLifetime = 2
  Settings <- MCSettings
  Authority0 <- MCAuthority0
  Authority1 <- MCAuthority1
  Payers <- MCPayers
  None = None
SPECIFICATION Spec
PROPERTY ReviewedAtExpiration
