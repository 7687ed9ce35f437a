\* One message whose step returns a message command.
CONSTANTS
  location = location
  media = media
  resize = resize
  MaxMessages = 2
  MaxTrouble = 0
  Key = {location}
  Eager = {}
  Deferring = {}
  Configs <- NoConfigs
  Programs <- MessagePrograms
SPECIFICATION FairSpec
PROPERTIES
  MessageCommandsHandled
CHECK_DEADLOCK FALSE
