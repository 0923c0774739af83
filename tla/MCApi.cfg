SPECIFICATION Spec
CONSTANTS
    Texts <- TextSet
    TrimSpace <- TrimSpaceOf
    ToLower <- ToLowerOf
    UrlScheme <- UrlSchemeOf
    PemType <- PemTypeOf
    DerFormats <- DerFormatsOf
    CertFile <- CertFileOf
    Messages <- MessageSet
INVARIANTS ShownAsSent SendsBack RendersSoundly CertificatesKeptApart
