\* The status in the list against the password that is valid.
SPECIFICATION DeliverySpec
CONSTANTS
  MaxDelivery = 2
  Providers = {"resend"}
INVARIANTS
  SentIsCurrent
