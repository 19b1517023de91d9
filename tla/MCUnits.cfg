CONSTANTS
  Depth = 2
  Msg = {a, b, c}
  NSeq = 4
  MaxRequests = 5
  Width = 3
  Rows = 3
  Cols = 3
  Visible = {"x", "y"}
SPECIFICATION UnitSpec
INVARIANTS OldestWins RoundTrip DecodersAgree ResultIsCorrect NothingIsLost
PROPERTIES ImplementsQueue Finishes ShowsTheText
