\* Every payload, with every set of templates that fail.
SPECIFICATION Spec
CONSTANTS
    None = None
    Letter <- Letters
    Cap = 8
    Payload <- Payloads
INVARIANTS
    EmailTypeOK
    
    
    HTMLIsEscaped
    PartsAgree
    LinkIsOffered
