CONSTANTS
  Commands <- MCCommands
  Campaign <- MCCampaign
  IdentityNeeded <- MCIdentityNeeded
  Receipts <- MCReceipts
  Record <- MCRecord
  Listings <- MCListings
SPECIFICATION Spec
INVARIANT BatchesShareNoCell
CHECK_DEADLOCK FALSE
