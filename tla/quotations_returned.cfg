SPECIFICATION QuotationsSpec
CONSTANTS
    Quoter = {q1}
    Content = {before, after}
    MaxDocuments = 2
    MaxQuoteMishaps = 0
INVARIANTS
    WhatIsQuotedIsThere
CHECK_DEADLOCK FALSE
