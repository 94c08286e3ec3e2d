SPECIFICATION Spec
CONSTANTS
    w1 = w1
    p1 = p1
    Contacts = {c1}
    Phones <- BothForms
    NoPhone = NoPhone
    Channels = {whatsapp}
    Requests = {r1}
    PerPage = 1
    MaxRecords = 2
    Wires <- OneWire
    StoredPhone <- Plus
    WhatsApp = whatsapp
    Window = 1
    MaxClock = 1
    Handlers = {h1, h2}
    Events = {"update", "import", "crash", "inbound", "send", "agent", "upsert", "store"}
SYMMETRY HandlerSymmetry
INVARIANTS
    
    WindowFollowsNewest
    TextsAreInWindow
