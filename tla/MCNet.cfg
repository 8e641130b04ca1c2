SPECIFICATION Spec
CONSTANTS
  Calls = {"dhcp", "ping", "dns", "http"}
  MaxCalls = 3
  Hosts = {"h1", "h2"}
  Servers = {1, 2}
  HeaderLen <- MCHeaderLen
  BodyLen <- MCBodyLen
  BadStatus = {}
  MaxHeader = 3
  MaxBody = 2
  MaxRetries = 1
  SeqMod = 16
  Isn = 12
INVARIANTS BodyIsPrefix AckedIsKept AnswerIsOwn
PROPERTIES LeaseWasRequested CallsReturn
