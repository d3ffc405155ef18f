SPECIFICATION Spec
CONSTANTS
  Guests = {b1, b2}
  Cancels = {c1, c2}
  Confirms = {a1}
  Editors = {}
  Party <- Parties
  Seats = 2
  NewSeats = {1, 3}
  MaxCrash = 0
CHECK_DEADLOCK FALSE
PROPERTIES ConfirmOnlyWaitlisted
