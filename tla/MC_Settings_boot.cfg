\* After a restart the sink is the one of the environment, not of the row (violated).
CONSTANTS
  NoHost = NoHost
  Hosts = {h1, h2}
  EnvHost = h1
  Pages = {p1}
  Callers = {c1}
  Emitters = {e1}
SPECIFICATION Spec
INVARIANT SinkOfRowAtBoot
