CONSTANTS
  Payments = {pay1, pay2}
  Revocations = {rev1}
  FirstPasswords = {fp1}
  PasswordChanges = {chg1}
  MaxPassportHalts = 0
SPECIFICATION PassportsSpec
INVARIANTS RevokedIsFinal
CHECK_DEADLOCK FALSE
