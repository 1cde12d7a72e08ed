CONSTANTS
  MessageLength = 1
  DISPLAY_WIDTH = 1
  NEWS_LIST_LEN = 2
  NoFeed = NoFeed
  ItemsOf <- MCItemsOf
SPECIFICATION FairSpec
PROPERTIES
  ScrollGoesAway
  ChosenFeedIsScrolled
