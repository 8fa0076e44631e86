SPECIFICATION GrantSpec
CONSTANTS
  Scope <- MCScope
  Implicants <- MCImplicants
  Clients = {k1}
  Entries <- MCEntries
  Unregistered = Unregistered
  TrustedScopes <- MCTrusted
  UntrustedScopes <- MCUntrusted
  NonRefreshableScopes = {"openid"}
  KeyBearingScopes = {"oldsync"}
  Oldsync = "oldsync"
  Tokenserver = Tokenserver
  None = None
  Requested <- MCRequested
  MaxScopes = 3
  MaxCodes = 1
  MaxTokens = 1
INVARIANTS GrantTypeOK SetIsExact NothingBeyondRegistration SyncNeedsRegistration
PROPERTIES ImplementsClosure
