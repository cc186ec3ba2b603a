SPECIFICATION MCSpec
CONSTANTS
  Folders = {"/", "d"}
  Top = "/"
  None = "none"
  Names = {".", "d/"}
  Joined <- MCJoined
  MaxMoves = 2
  Calls = {"c1", "c2"}
  Values = {1, 2}
  Offers <- MCOffers
  Blank = 0
  ChatLimit = 2
  ListLimit = 1
  MaxChunks <- MCMaxChunks
  Uses <- MCUses
INVARIANTS TypeOK OneEntry WholeReply
PROPERTIES RunsWhereShown CdObeyed StopEnds
