\* A page and another client save, a thread emits, the process dies and boots.
CONSTANTS
  NoHost = NoHost
  Hosts = {h1, h2}
  EnvHost = h1
  Pages = {p1}
  Callers = {c1}
  Emitters = {e1}
SPECIFICATION Spec
INVARIANTS   FormShows
