SPECIFICATION NotifySpec
CONSTANT Arrivals = {m1, m2}
PROPERTY FlagNotified
CHECK_DEADLOCK FALSE
