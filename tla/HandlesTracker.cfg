CONSTANTS
    h1 = h1
    h2 = h2
    file = file
    event = event
    HandleValue = {h1, h2}
    ObjectType = {file, event}
    FirstRoom = 1
    Slack = 0
SPECIFICATION FairSpec
  
PROPERTIES  ExitIsReported
