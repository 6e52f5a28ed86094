SPECIFICATION Spec
CONSTANTS
    AuthMethods = {"none", "userpass"}
    Permit = {"connect", "bind"}
    MaxUp = 5
    MaxDown = 2
INVARIANTS
    TypeOK
    Authenticated
    AnsweredOnce
    NothingCutOff
PROPERTIES
    IsRelay
    HalfCloseForwarded
    SessionEnds
    CopiersEnd
