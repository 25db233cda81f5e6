SPECIFICATION MonitorSpec
CONSTANTS
  Thread = {t1, t2, t3}
  Priority = {1, 2}
  NoThread = NoThread
PROPERTY SignalsHighest
