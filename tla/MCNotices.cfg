SPECIFICATION NoticesLiveSpec
CONSTANTS
  Writers = {w1, w2}
  Operations = {print}
  NoGap = NoGap
  NoticeBatch = 2
  NoticeReplay = 3
  MaxBurst = 2
  MaxTime = 3
  MaxChanges = 2
CHECK_DEADLOCK FALSE
INVARIANTS
  NoneOvertaken
  GapsAddUp
PROPERTIES
  NotificationsArrive
