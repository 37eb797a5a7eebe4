SPECIFICATION StubbornSpec
CONSTANTS
  g1 = g1
  g2 = g2
  g3 = g3
  a1 = a1
  a2 = a2
  b1 = b1
  b2 = b2
  c1 = c1
  NoGroup = NoGroup
  Group = {g1, g2, g3}
  Reservation = {a1, a2, b1, b2, c1}
  Resource = {"ram", "cpu"}
  GroupOf <- MCGroupOf
  Capacity <- MCCapacity
  Size <- MCSize
  Recurring = {a1, a2}
PROPERTY StopsHard
CHECK_DEADLOCK FALSE
