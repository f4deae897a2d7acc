CONSTANTS
  Row = {1, 2, 3}
  Initial = {1, 3}
  State = {"PENDING_STORAGE", "ACTIVE", "REVOKING"}
  Ms <- Millis
  Us <- Micros
  Id <- Ids
  CourseOf <- Courses
  Course = {"cs", "law"}
  Unset = Unset
  PageSize = 1
  MaxPage = 2
  MaxClicks = 3
SPECIFICATION FairSpec
INVARIANTS
  WalkIsSound
  ListIsHonest
PROPERTIES
  LoadingEnds
CHECK_DEADLOCK FALSE
