\* Two messages, one failure or render() or dispose(), two subscriptions.
CONSTANTS
  location = location
  media = media
  resize = resize
  MaxMessages = 2
  MaxTrouble = 1
  Key = {location, media}
  Eager = {media}
  Deferring = {location}
  Configs <- ChangingConfigs
  Programs <- SomePrograms
SPECIFICATION Spec
INVARIANTS
  CallbacksOutliveUses
  ReleasedOnce
  OneListenerPerKey
  SettledAsAsked
PROPERTIES
  NoStepLost
\* An application nobody acts on stops.
CHECK_DEADLOCK FALSE
