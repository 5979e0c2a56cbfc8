SPECIFICATION Spec
CONSTANTS
  None = None
  Top = Top
  Home = Home
  Bin = Bin
  Dirs = {Top, Home, Bin}
  Parent <- ParentOf
  Starts <- SomeStarts
  Installs <- SomeInstalls
  CommandLines <- SomeCommandLines
  Numbers <- SomeNumbers
  Rooted <- SomeRooted
  PortBits = 16
  IntBits = 18
  Forms <- SomeForms
  Objects <- SomeObjects
  Shows <- SomeShows
INVARIANTS OneInstallation KeptPicturesSafe PartsRead FormsAgree
CHECK_DEADLOCK FALSE
