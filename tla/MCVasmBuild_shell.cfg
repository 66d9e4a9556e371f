SPECIFICATION BuildSpec
CONSTANTS
    Scripts = {"m1", "m2"}
    NoScript = NoScript
    MaxScripts = 2
    NoDest = NoDest
    RegNames <- MCRegNames
    Assignable <- MCAssignable
    FileSystems <- MCFileSystems
INVARIANTS TypeOK RunsWhatWasLoaded ExitFreesAll BuiltNeverCrashes CompleteWhenFresh OperandsPointRight ResizedOnce
CHECK_DEADLOCK FALSE
