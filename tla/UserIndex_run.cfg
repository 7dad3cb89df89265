SPECIFICATION IndexSpec
CONSTANTS
  Processes = {p1}
  NumUsers = 9
  FileUsers = {1, 2, 3}
INVARIANTS IndexIsSound
