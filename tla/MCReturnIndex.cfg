CONSTANTS
  Commands <- MCCommands
  Campaign <- MCCampaign
  IdentityNeeded <- MCIdentityNeeded
  Receipts <- MCReceipts
  Record <- MCRecord
  Listings <- MCListings
  Plan <- MCPlan
SPECIFICATION Spec
INVARIANTS TypeOK UnbranchedHistory SelectedStandsOnProofs VerdictOfTheSet CompletableWhenSettled
PROPERTY FollowsLifecycle
CHECK_DEADLOCK FALSE
