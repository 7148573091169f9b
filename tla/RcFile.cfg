CONSTANTS
  MAXCONTACTS = 7
  Chars <- TheChars
  Digits <- TheDigits
  Uins <- TheUins
  Nicks <- TheNicks
  Statuses <- TheStatuses
  Offline <- OfflineText
  Online <- OnlineText
  Messages <- TheMessages
  DefaultMessage <- Short
  Own <- TheOwn
  Accounts <- TheAccounts
  NoFile = NoFile
  MaxCommands = 5
  MaxStops = 2
  Files <- TheFiles
SPECIFICATION FileSpec
INVARIANTS SavedFoundAgain AddedIsListed SettingsKept
CHECK_DEADLOCK FALSE
