\* Three InstallFilter calls, any UninstallFilter calls, two events, and Stop,
\* interleaved with filterLoop's steps.
CONSTANTS
    MaxIds = 3
    MaxEvents = 2
SPECIFICATION Spec

    
PROPERTIES
    NoCallbackAfterUninstall
    EventsHandled
CHECK_DEADLOCK FALSE
