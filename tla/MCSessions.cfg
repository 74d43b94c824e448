SPECIFICATION SessionsSpec
CONSTANTS
  alice = alice
  bob = bob
  admin_role = admin_role
  reader = reader
  right = right
  wrong = wrong
  broken = broken
  Users <- MCUsers
  Passwords <- MCPasswords
  Unreadable <- MCUnreadable
  Roles <- MCRoles
  Commands <- MCCommands
  FirstFiles <- MCFirstFiles
  Blank = Blank
  Ttl = 2
  MaxSeconds = 3
  MaxLogins = 2
INVARIANTS TypeOK DeadTokensStayDead NobodyIsLockedOut
