SPECIFICATION Spec
CONSTANTS
    Component <- MCComponent
    Type <- MCType
INVARIANTS TypeOK ReadsWhatIsStored InvokesWhatIsOffered EveryCallCanBeMade NothingIsIgnored AcceptedIsInvoked
CHECK_DEADLOCK FALSE
