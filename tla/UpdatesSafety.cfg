SPECIFICATION MCSpec
CONSTANTS
    Path = {fragment, doc, secret, lib}
    fragment = fragment
    Fragment = fragment
    ConfD <- ConfDirectory
    Key = polling_sec
    Decimal <- Decimals
    WriteRoot = {fragment, doc, secret}
    Sensitive = {secret}
    Writable = TRUE
    doc = doc
    text = text
    polling_sec = polling_sec
    crlf = crlf
    lf = lf
    nul = nul
    Text <- Texts
    CRLF = crlf
    LF = lf
    Nul = nul
    ViewCap = 3
    UploadCap = 3
    Upload <- Uploads
    Typed <- Typings
    Seconds = {4, 5, 100}
    Default = 300
    Request = {q1, q2, q3}
    None = None
    Primary = os
    Secondary <- Secondaries
    compose = compose
    Newest = 2
    Cut = cut
SYMMETRY Symmetry
INVARIANTS
    UpdatesTypeOK
    UpdatesInv
    AtRestIsLast
    UntouchedSaveKeeps
    PollingTakesEffect
    VerdictWasTrue
CHECK_DEADLOCK FALSE
