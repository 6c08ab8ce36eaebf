SPECIFICATION SpecCodecs
CONSTANTS
  a = a  b = b  p = p  m1 = m1  m2 = m2  m3 = m3
  fresh = fresh  nopayer = nopayer  nomessage = nomessage
  Fresh = fresh  NoPayer = nopayer  NoMessage = nomessage
  Accounts = {a, b, p}
  Kinds = {"pubkey", "keypair"}
  Metas = {m1, m2, m3}
  Plain = {m2}
  Ix <- TwoInstructions
  Payers <- OnePayer
  Api = {"add", "payer", "set", "supply"}
  MaxCalls = 2
  Tokens <- SomeTokens  Urls <- SomeUrls  DefaultUrl <- Localhost  HttpPort = "443"  WsPort = "8900"
  MaxSetters = 2  NoRequest = norequest  norequest = norequest
INVARIANTS InstructionsServed RightsNeeded SignersServed RoundTrip QueryHoldsItsTree RequestKeepsItsPlaces EndpointsAreOfLastUrl ReadsWhatItWrites
CHECK_DEADLOCK FALSE
