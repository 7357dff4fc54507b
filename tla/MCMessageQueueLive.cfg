\* One key and messages that hold everything, up to and past a shutdown.
CONSTANTS
  c1 = c1
  Cids = {c1}
  maxMessageSize = 8
SPECIFICATION Spec
PROPERTIES
  
  CancelsArrive
