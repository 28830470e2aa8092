\* Two phones ask for codes from one address, and one of them types codes in.
CONSTANTS
    p1 = p1
    p2 = p2
    i1 = i1
    i2 = i2
    c1 = c1
    c2 = c2
    r1 = r1
    r2 = r2
    None = None
    Phones = {p1, p2}
    Verified = {p1}
    Ips = {i1}
    Codes = {c1, c2}
    Generated <- TwoCodesOrOne
    Requests = {r1, r2}
    OtpExpiresIn = 1
    RateLimitWindow = 1
    MaxAttempts = 2
    RateLimitMax = 1
SPECIFICATION Spec
SYMMETRY OtpSymmetry
INVARIANTS TypeOK LimitsAreExceededByOverlapOnly PhoneCounterExpires  UntriedCodeExpires WelcomedOnce
