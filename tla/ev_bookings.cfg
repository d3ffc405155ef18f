SPECIFICATION Spec
CONSTANTS
  Guests = {b1, b2, b3}
  Cancels = {c1, c2}
  Confirms = {a1}
  Editors = {e1}
  Party <- Parties
  Seats = 2
  NewSeats = {3}
  MaxCrash = 1
CHECK_DEADLOCK FALSE
SYMMETRY Interchangeable
INVARIANTS RefundsMatchCancels
PROPERTIES SeatsWithinCapacity
