\* One process runs a component it names with a version.
SPECIFICATION BoundedSpec
CONSTANTS
    app = app
    hello = hello
    http = http
    root = root
    none = none
    MaxCommands = 2
    Proc = {p1}
    Package = {app, http}
    Version = {1, 2}
    NoPackage = none
    Component = {app}
    Placeholder = root
    Embedded <- Embeds
    Published <- Releases
    Depends <- Needs
    HandWritten <- NoManifests
    Requests <- RunCommands
INVARIANT RunFindsInstalled
CHECK_DEADLOCK FALSE
