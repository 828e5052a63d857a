\* An approval and a resend, and a process that may restart without mail.
SPECIFICATION DeliveryFairSpec
CONSTANTS
  MaxDelivery = 2
  Providers = {"smtp", "none"}
INVARIANTS
  SentIsTrue
  AnswerIsRecorded
PROPERTIES
  AdminIsAnswered
  NoGoroutineLeaks
