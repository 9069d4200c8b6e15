CONSTANTS
  Events = {"port", "command"}
  EvBufSize = 4
SPECIFICATION EvFairSpec
PROPERTIES ImplementsEventFifo EventsAreHandled
\* The driver may stop after an interrupt that came inside Pop: see the README.
CHECK_DEADLOCK FALSE
