SPECIFICATION PartsSpec
CONSTANTS
    Parts = {"outbox", "keys", "legacy", "registrations", "recipients", "hooks", "door"}
    Off = Off
    NoKey = NoKey
    Tokens = {t1, t2}
    Devices = {d1, d2, d3}
    NoToken = NoToken
    Torn = Torn
SYMMETRY Symmetry
INVARIANTS HandledOnce RegistrationsAgree
PROPERTIES TerminalIsFinal
CHECK_DEADLOCK FALSE
