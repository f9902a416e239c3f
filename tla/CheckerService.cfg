SPECIFICATION ServiceFairSpec
CONSTANTS
    Worker = {w1, w2}
    Proxy = {"a", "as", "b", "c", "m", "s5"}
    NoProxy = "no proxy"
    ProtocolOf <- MCProtocolOf
    UrlOf <- MCUrlOf
    NoUrl = "no url"
    Malformed = {"m"}
    MaxSize = 2
    MaxRedirects = 1
    Status = {200, 302, 407}
    SuccessStatus = {200, 407}
INVARIANTS ServiceTypeOK TransportsAccounted VictimsAged VerdictEarned
PROPERTIES ProbesEnd
