SPECIFICATION AccountsSpec
CONSTANTS
  r1 = r1
  r2 = r2
  n1 = n1
  n2 = n2
  w1 = w1
  w2 = w2
  Requests <- MCRequests
  Profiles <- MCProfiles
  Names <- MCNames
  Trim <- MCTrim
  MailOf <- MCMailOf
  Passwords <- MCPasswords
  MaxCalls = 3
  MaxUsers = 2
  MaxAccounts = 2
SYMMETRY MCSymmetry
INVARIANTS TypesOK OnlyWhatWasAsked RolesInPlace OneUser
CHECK_DEADLOCK FALSE
