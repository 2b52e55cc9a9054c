SPECIFICATION Spec
CONSTANTS
    home = home
    portable = portable
    Calls <- MCCalls
    Base <- MCBase
    Groups = {group}
    Relay = relay
    Nothing = nothing
    Draft = draft
    MaxId = 2
    MaxQueue = 1
PROPERTIES
    GroupNotOfferedAgain
