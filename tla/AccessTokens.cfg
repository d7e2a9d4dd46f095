\* Accounts, tokens and keys while a status changes and time passes.
SPECIFICATION SpecWithBob
CONSTANTS
  Request = {first, r1, r2, r3}
  first = first
  alice = alice
  bob = bob
  long = long
  short = short
  Address = {alice, bob}
  Password = {long, short}
  Weak = {short}
  Credential <- FewCredentials
  Asked = {{}, {"OTHER"}}
  UserStatus = {"ACTIVE", "SUSPENDED"}
  Kind = {"register", "login", "create_api_key", "list_api_keys", "delete_api_key", "place_order",
          "get_register"}
  jwt_expiration_secs = 1
  leeway = 0
  MaxTime = 2
  MaxInFlight = 2
  MaxChanges = 1
SYMMETRY AnyRequest
INVARIANTS
  TokensAreEarned
  RegisteredCanLogIn
  ChecksAgree
  KeysAccounted
  ListsAreCurrent
PROPERTY
  SuspendedLoseAccess
