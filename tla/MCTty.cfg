CONSTANTS
    INPUT_BUF_SIZE = 2
    UART_TX_BUF_SIZE = 1
    WORD = 4
    TXWORD = 2
    START = 3
    READ = 2
    KEYS = 2
SPECIFICATION FairSpec
INVARIANTS LocksSound  NoLostWakeup
PROPERTIES EditsLines WriterProceeds
CHECK_DEADLOCK FALSE
