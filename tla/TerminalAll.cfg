\* Much typing and no output, or some of both.
CONSTANTS
  Readers = {"R1"}
  Writers = {"W1", "W2"}
  INPUT_BUF = 4
  UART_TX_BUF_SIZE = 2
  Wrap = 8
  FIFO = 2
  Lengths = {2}
  Chars = {"x", "nl", "eof", "kill", "bs", "nul"}
  Budgets <- MCBudgets
SPECIFICATION Spec
CHECK_DEADLOCK FALSE
INVARIANT NothingLost
PROPERTIES ImplementsLine OutputSent InputRead
