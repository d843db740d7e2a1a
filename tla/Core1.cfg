\* The chains of the program: the USB keyboard, and the wave reader, asked for twice. A tick is
\* 3.3 ms: a chain waits three ticks (10 ms), core 1 sleeps five at most (16.7 ms). A call lasts
\* one at most: calls of all the other chains that fill a period keep core 1 in
\* call_inner_requests.
SPECIFICATION FairSpec
CONSTANTS
  Funcs = {usb, wave, again}
  Again = {usb}
  Period = 3
  MaxSleep = 5
  MaxRun = 1
  CALLBACK_BUFFER_NUM = 3
  MailboxSize = 2
  MaxLate = 8
INVARIANTS
  TypeOK
  StoppedIsQuiet
  RestartCallsOnce
  PolledInTime
PROPERTIES
  ChainsKept
  HandshakesEnd
