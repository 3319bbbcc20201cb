CONSTANTS
  Commands <- MCCommands
  Campaign <- MCCampaign
  IdentityNeeded <- MCIdentityNeeded
  Receipts <- MCReceipts
  Record <- MCRecord
  Listings <- MCListings
  Plan <- MCPlan
SPECIFICATION Spec
INVARIANT RowRecordsInSchema
CHECK_DEADLOCK FALSE
