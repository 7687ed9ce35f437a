\* Liveness, with commands of every kind and no failure.
CONSTANTS
  location = location
  media = media
  resize = resize
  MaxMessages = 2
  MaxTrouble = 0
  Key = {location, media}
  Eager = {media}
  Deferring = {location}
  Configs <- TwoConfigs
  Programs <- AllPrograms
SPECIFICATION FairSpec
PROPERTIES
  MessagesHandled
CHECK_DEADLOCK FALSE
