CONSTANTS Tasks = {0, 1, 2, 3}
          frequency <- Lab3Frequency
          duration <- Lab3Duration
          PROCESSORS = 1
SPECIFICATION Spec
INVARIANTS TypeOK OneJobPerThread AtMostOneLate
PROPERTIES LastCall EndsAfterSignal
CHECK_DEADLOCK FALSE
