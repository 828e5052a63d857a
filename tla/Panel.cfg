\* Two requests, two pictures, two regions.
SPECIFICATION FairSpec
CONSTANTS
  p1 = p1
  p2 = p2
  north = north
  south = south
  Picture = {p1, p2}
  Region = {north, south}
  Request = {r1, r2}
  Orders <- MCOrders
  Lists <- MCLists
  Blank = Blank
  None = None
PROPERTIES
  OrderOfOneRequest
  NewPictureComesLast
  ReplacedButForOthers
  EveryRequestEnds
