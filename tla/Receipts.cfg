SPECIFICATION Spec
CONSTANTS
  confirm = confirm
  change = change
  cancel = cancel
  learned = learned
  forward = forward
  pasted = pasted
  acct = acct
  acct2 = acct2
  epoch = epoch
  epoch2 = epoch2
  airline = airline
  pnr = pnr
  None = None
  Docs = {confirm, cancel, pasted}
  Imports = {pasted}
  ManualBookings = {manual}
  Workers = {w1, w2}
  Accounts = {acct, acct2}
  Epochs = {epoch, epoch2}
  Senders = {airline}
  Codes = {pnr}
  Days <- MCDays
  SourceOf <- MCSourceOf
  ParsedOf <- MCParsedOf
  Overrides <- MCOverrides
  Window = 1
  Grace = 1
  MaxEdits = 1
  MaxFaults = 1
SYMMETRY WorkerSymmetry
INVARIANTS TypeOK ReceiptsHonest RemindersFollowBookings
PROPERTY NothingGoesBack
