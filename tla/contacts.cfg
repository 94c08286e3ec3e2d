SPECIFICATION ContactsSpec
CONSTANTS
    Contacts = {c1}
    Phones = {p1}
    NoPhone = NoPhone
    Channels = {whatsapp, sms}
    Requests = {r1, r2}
    PerPage = 1
    MaxRecords = 2
    Events = {"optin", "double", "confirm", "optout", "update", "create", "import", "delete", "write", "record", "crash"}
INVARIANTS
    SettledStays
    
    ExpiredIsNotConfirmed
