\* Requests of all kinds are the same two model values, for the symmetry.
SPECIFICATION Spec
CONSTANTS
  Author = author
  Reader = reader
  Users = {author, reader}
  Nobody = Nobody
  MediaIds = {m1, m2}
  StoryRequests = {r1, r2}
  ScreenLimit = 1
  MaxStories = 2
  MaxToggles = 3
  Stories = {s1, s2}
  CommentRequests = {r1, r2}
  MaxComments = 3
  MaxLikes = 3
  FileNames = {"a.jpg"}
  MediaRequests = {r1, r2}
  Lifetime = 1
  LastTick = 2
  MaxAssets = 2
  PerSecond = 2
  PageLimit = 1
  LastInstant = 3
  MaxPosts = 3
SYMMETRY Interchangeable
INVARIANTS
  TypeOK
  ToggleParity
  CommentsListed
  LikeCountRight
  AssetHasObject
  ObjectIsKnown
  PagesMissOnlySameSecond
PROPERTIES
  StoryKeepsMedia
CHECK_DEADLOCK FALSE
