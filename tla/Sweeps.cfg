CONSTANTS
  Talks = {1}
  Days = {0}
  Default = 1
  Retries = 1
  MaxAge = 1
  MaxRenderings = 2
  MaxChanges = 1
  MaxFaults = 2
  Faults = {}
  Indefinite = Indefinite
  None = None
SPECIFICATION Spec
PROPERTY SweepsTheExpired
