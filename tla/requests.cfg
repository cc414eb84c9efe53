SPECIFICATION FairSpec
CONSTANTS
  buyer = buyer
  seller1 = seller1
  seller2 = seller2
  importer = importer
  Request = {buyer, seller1, seller2, importer}
  Rows <- Requests
  OpeningLots <- TwoLots
  TradesPerMonth = 4
INVARIANTS
  SharesNeverLost
  SerialRequestsAgree
PROPERTIES
  EveryRequestAnswered
CHECK_DEADLOCK FALSE
