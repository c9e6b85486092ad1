SPECIFICATION Spec
CONSTANTS
  mail = mail
  chat = chat
  team = team
  Nil = Nil
  Text <- AllText
  Channels = {mail, chat}
  Groups = {team}
  ChannelIds = {1, 2, 3}
  GroupIds = {1, 4}
  Specs <- AllSpecs
  UiBase <- InUi
  UiDetail <- InUiOfType
  UiTypes <- OtherTypes
  MaxTouches = 2
INVARIANT TypeOK
INVARIANT RoundTrip
INVARIANT LeftAloneIsAsSent
 
