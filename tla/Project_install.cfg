\* Two processes work in one project directory; components and interfaces.
SPECIFICATION BoundedSpec
CONSTANTS
    app = app
    hello = hello
    http = http
    MaxCommands = 3
    root = root
    Proc = {p1, p2}
    Package = {app, hello, http}
    Version = {1, 2}
    NoPackage = none
    Component = {app, hello}
    Placeholder = root
    Embedded <- Embeds
    Published <- Releases
    Depends <- Needs
    HandWritten <- Manifests
    Requests <- Commands
INVARIANTS TypeOK InstalledIsRunnable DependenciesAreLocked UnpackFindsFile WitIsUnpacked
PROPERTIES StaysRunnable
SYMMETRY Processes
CHECK_DEADLOCK FALSE
