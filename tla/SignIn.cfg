SPECIFICATION Spec
CONSTANTS
  Tabs = {"t1", "t2"}
  Browsers = {"b1", "b2"}
  Users = {"jane", "joe"}
  Pages = {"/p"}
  Setups <- MCSetups
  Profiles <- MCProfiles
  Directives <- MCDirectives
  VhostDirectives <- MCVhostDirectives
  Clients = {"github.com"}
  Spoofs = {}
  FileUsers <- MCFileUsers
  Accounts <- MCAccounts
CHECK_DEADLOCK FALSE
INVARIANT
  SessionsKept
PROPERTIES
  PagesAreForAccounts
  
  RequestsEnd
