CONSTANTS Senders = {"upr"}
          SECOND = 3
          TIMEOUT = 2
          MaxID = 4
          MaxTime = 5
SPECIFICATION Spec
INVARIANTS TypeOK UniqueIds AckedNotTracked
PROPERTIES NoEarlyDrop NoneExpiredKept
