\* One user, no media.  The feed shows a story before it was moderated.
SPECIFICATION StorySpec
CONSTANTS
  Users = {u1}
  Nobody = Nobody
  MediaIds = {}
  StoryRequests = {r1}
  ScreenLimit = 50
  MaxStories = 2
  MaxToggles = 1
INVARIANTS
  FeedShowsApproved
CHECK_DEADLOCK FALSE
