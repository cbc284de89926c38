-------------------------------- MODULE Tty ---------------------------------
(***************************************************************************)
(* The console: kernel/console.c, uart.c and the spin locks of spinlock.c, *)
(* on CPUs that are interrupted wherever push_off() has not turned         *)
(* interrupts off.                                                         *)
(*                                                                         *)
(* One process writes to the console, on CPU 1, and one reads; either CPU  *)
(* may take the UART's interrupt.  A step runs from one access to a device *)
(* register or a lock to the next; consoleread(), which has none inside    *)
(* its section of cons.lock, is one step up to sleep().                    *)
(* cons.r, w and e are uint and wrap at WORD.  The bytes of the writer are *)
(* 0 and 1 in turn, so that a lost or repeated one shows.                  *)
(***************************************************************************)
EXTENDS Integers, Sequences, FiniteSets

CONSTANTS
    INPUT_BUF_SIZE, UART_TX_BUF_SIZE,
    WORD, TXWORD,   \* 2^32 and 2^64, where their indices wrap
    START,          \* the indices of the idle console, after any number of bytes
    READ,           \* bound: the n of read()
    KEYS            \* bound: keys typed

ASSUME TtyAssumption ==
    /\ INPUT_BUF_SIZE \in Nat \ {0} /\ UART_TX_BUF_SIZE \in Nat \ {0}
    /\ WORD % INPUT_BUF_SIZE = 0 /\ WORD > INPUT_BUF_SIZE /\ START \in 0..WORD-1
    /\ TXWORD % UART_TX_BUF_SIZE = 0 /\ TXWORD > UART_TX_BUF_SIZE
    /\ READ \in Nat \ {0} /\ KEYS \in Nat

VARIABLES
    cpu,            \* cpu[c]: noff, intena, sie; th, ih: where its process and its handler are
    lock,           \* lock["cons"], lock["tx"]: the CPU that holds it, or 0
    cons,           \* buf, r, w, e
    tx,             \* uart_tx_buf, uart_tx_r, uart_tx_w
    uart,           \* rx: the byte received; thr: the transmit FIFO; irq: it has run empty
    plic,           \* the CPU that has claimed the interrupt, or 0
    asleep,         \* the writer if it is in sleep()
    reader, left,   \* the reader: user, asleep, woken, killed or dead; the n left of its read()
    next, last,     \* the writer's next byte, and the last one sent
    keys            \* keys typed so far
rvars == <<reader, left>>
vars == <<cpu, lock, cons, tx, uart, plic, asleep, rvars, next, last, keys>>

Writer == 1
Cpus == {1, 2}
LockNames == {"cons", "tx"}
\* Return, ^D, ^U, ^H or delete, any other byte.
Chars == {"cr", "eof", "kill", "bs", "x"}

F(pc) == [pc |-> pc]

\* consoleinit() and uartinit().
Init ==
    /\ cpu = [c \in Cpus |-> [noff |-> 0, intena |-> FALSE, sie |-> TRUE, th |-> F("user"), ih |-> F("none")]]
    /\ lock = [l \in LockNames |-> 0]
    /\ cons = [buf |-> [k \in 0..INPUT_BUF_SIZE-1 |-> "x"], r |-> START, w |-> START, e |-> START]
    /\ tx = [buf |-> [k \in 0..UART_TX_BUF_SIZE-1 |-> 0], r |-> 0, w |-> 0]
    /\ uart = [rx |-> "none", thr |-> << >>, irq |-> FALSE]
    /\ plic = 0 /\ asleep = {} /\ reader = "user" /\ left = READ
    /\ next = 0 /\ last = 1 /\ keys = 0

\* The CPU runs its handler if it is in one, and its process otherwise.
InIntr(c) == cpu[c].ih.pc # "none"
Frame(c) == IF InIntr(c) THEN cpu[c].ih ELSE cpu[c].th
At(c, pc) == Frame(c).pc = pc /\ (InIntr(c) \/ c \notin asleep)
With(x, c, f) == IF InIntr(c) THEN [x EXCEPT !.ih = f] ELSE [x EXCEPT !.th = f]
Go(c, f) == cpu' = [cpu EXCEPT ![c] = With(@, c, f)]

-----------------------------------------------------------------------------
push_off(x) == [x EXCEPT !.noff = @ + 1, !.sie = FALSE,
                         !.intena = IF x.noff = 0 THEN x.sie ELSE @]
\* intena is read only while noff > 0, and FALSE here otherwise.
pop_off(x) == [x EXCEPT !.noff = @ - 1, !.sie = x.noff = 1 /\ x.intena,
                        !.intena = x.noff > 1 /\ x.intena]

\* Faulty acquire: interrupts stay as they are.
acquireOn(c, l, then) ==
    /\ lock' = [lock EXCEPT ![l] = IF @ = 0 THEN c ELSE @]
    /\ cpu' = [cpu EXCEPT ![c] = With([@ EXCEPT !.noff = @ + 1], c,
                                      IF lock[l] = 0 THEN then ELSE [pc |-> "spin", lk |-> l, then |-> then])]

\* acquire(): interrupts off, then the lock, or spin while another has it.
acquire(c, l, then) ==
    /\ lock' = [lock EXCEPT ![l] = IF @ = 0 THEN c ELSE @]
    /\ cpu' = [cpu EXCEPT ![c] = With(push_off(@), c,
                                      IF lock[l] = 0 THEN then ELSE [pc |-> "spin", lk |-> l, then |-> then])]
Spin(c) ==
    /\ At(c, "spin") /\ lock[Frame(c).lk] = 0
    /\ lock' = [lock EXCEPT ![Frame(c).lk] = c]
    /\ Go(c, Frame(c).then)
    /\ UNCHANGED <<cons, tx, uart, plic, asleep, rvars, next, last, keys>>

\* release() of a lock at the end of a section, which goes on at then.
release(c, l, then) ==
    /\ lock' = [lock EXCEPT ![l] = 0]
    /\ cpu' = [cpu EXCEPT ![c] = With(pop_off(@), c, then)]

\* sleep(): the lock is released as the process goes to sleep; Awake takes it again.
Sleep(c, l, then) ==
    /\ lock' = [lock EXCEPT ![l] = 0]
    /\ cpu' = [cpu EXCEPT ![c] = [pop_off(@) EXCEPT !.th = [pc |-> "awake", lk |-> l, then |-> then]]]
    /\ asleep' = asleep \cup {c}
Awake(c) ==
    /\ At(c, "awake")
    /\ acquire(c, Frame(c).lk, Frame(c).then)
    /\ UNCHANGED <<cons, tx, uart, plic, asleep, rvars, next, last, keys>>

-----------------------------------------------------------------------------
At1(k) == cons.buf[k % INPUT_BUF_SIZE]

Bytes(a, b) == [j \in 1..(b - a) % WORD |-> At1((a + j - 1) % WORD)]
Least(S) == CHOOSE x \in S : \A y \in S : x <= y

\* Faulty consoleread: it reads up to e, what is still being edited.
consolereadAll ==
    /\ reader \notin {"asleep", "dead"} /\ lock["cons"] = 0
    /\ IF cons.r = cons.e THEN reader' = "asleep" /\ UNCHANGED cons
       ELSE cons' = [cons EXCEPT !.r = (@ + 1) % WORD] /\ reader' = "user"
    /\ UNCHANGED <<cpu, lock, tx, uart, plic, left, asleep, next, last, keys>>

\* consoleread(), one section of cons.lock up to sleep() or the end: take bytes until n
\* are there or one ends the read.  ^D stays for the next read unless it came first; a
\* copyout() that fails ends the read after any byte.
consoleread ==
    LET n == IF reader = "user" THEN READ ELSE left
        line == Bytes(cons.r, cons.w)
        m == IF n < Len(line) THEN n ELSE Len(line)
        ends == {j \in 1..m : line[j] \in {"eof", "nl"}}
        k == IF ends = {} THEN m ELSE Least(ends)
        saved == ends # {} /\ line[k] = "eof" /\ n - k + 1 < READ
        Return == reader' = (IF reader = "killed" THEN "dead" ELSE "user") /\ left' = READ
        Take(j) == cons' = [cons EXCEPT !.r = (@ + j) % WORD]
    IN  /\ reader \notin {"asleep", "dead"} /\ lock["cons"] = 0
        /\ \/ /\ ends = {} /\ m < n
              /\ Take(m)
              /\ IF reader = "killed" THEN Return
                 ELSE reader' = "asleep" /\ left' = n - m
           \/ /\ ends # {} \/ m = n
              /\ Take(IF saved THEN k - 1 ELSE k)
              /\ Return
           \/ \E j \in 1..k : line[j] # "eof" /\ Take(j) /\ Return
        /\ UNCHANGED <<cpu, lock, tx, uart, plic, asleep, next, last, keys>>
WakeReader == reader' = IF reader = "asleep" THEN "woken" ELSE reader

\* kill() of the reader: in the middle of a read it goes on, and exits on its way out.
Kill ==
    /\ reader \notin {"killed", "dead"}
    /\ reader' = IF reader = "user" THEN "dead" ELSE "killed"
    /\ UNCHANGED <<cpu, lock, cons, tx, uart, plic, asleep, left, next, last, keys>>

\* consolewrite() calls uartputc() for each byte.
WriteCall ==
    /\ At(Writer, "user")
    /\ acquire(Writer, "tx", F("putc"))
    /\ UNCHANGED <<cons, tx, uart, plic, asleep, rvars, next, last, keys>>
TxFull == tx.w = (tx.r + UART_TX_BUF_SIZE) % TXWORD

\* Faulty uartputc: a byte for which there is no room is dropped.
uartputcDrop(c) ==
    /\ At(c, "putc")
    /\ tx' = IF TxFull THEN tx
             ELSE [tx EXCEPT !.buf[tx.w % UART_TX_BUF_SIZE] = next, !.w = (@ + 1) % TXWORD]
    /\ next' = 1 - next
    /\ Go(c, F("start"))
    /\ UNCHANGED <<lock, asleep, cons, uart, plic, rvars, last, keys>>

\* uartputc(): sleep while the ring is full, then store and start.
uartputc(c) ==
    /\ At(c, "putc")
    /\ \/ /\ TxFull /\ Sleep(c, "tx", F("putc"))
          /\ UNCHANGED <<tx, next>>
       \/ /\ ~TxFull
          /\ tx' = [tx EXCEPT !.buf[tx.w % UART_TX_BUF_SIZE] = next, !.w = (@ + 1) % TXWORD]
          /\ next' = 1 - next
          /\ Go(c, F("start")) /\ UNCHANGED <<lock, asleep>>
    /\ UNCHANGED <<cons, uart, plic, rvars, last, keys>>

\* Faulty SendNext: uartputc() is not told that there is room.
SendNextNoWake(c) ==
    /\ At(c, "send")
    /\ tx' = [tx EXCEPT !.r = (@ + 1) % TXWORD]
    /\ last' = tx.buf[tx.r % UART_TX_BUF_SIZE]
    /\ uart' = [uart EXCEPT !.thr = Append(@, "x"), !.irq = FALSE]
    /\ Go(c, F("start"))
    /\ UNCHANGED <<lock, cons, plic, asleep, rvars, next, keys>>

\* uartstart(): look at the ring and at LSR_TX_IDLE ...
uartstart(c) ==
    /\ At(c, "start")
    /\ IF tx.w = tx.r \/ uart.thr # << >>
       THEN release(c, "tx", F(IF InIntr(c) THEN "complete" ELSE "user"))
       ELSE Go(c, F("send")) /\ UNCHANGED lock
    /\ UNCHANGED <<cons, tx, uart, plic, asleep, rvars, next, last, keys>>
\* ... then take a byte, wake who waits for room, write the THR.
SendNext(c) ==
    /\ At(c, "send")
    /\ tx' = [tx EXCEPT !.r = (@ + 1) % TXWORD]
    /\ last' = tx.buf[tx.r % UART_TX_BUF_SIZE]
    /\ asleep' = asleep \ {Writer}
    /\ uart' = [uart EXCEPT !.thr = Append(@, "x"), !.irq = FALSE]
    /\ Go(c, F("start"))
    /\ UNCHANGED <<lock, cons, plic, rvars, next, keys>>

-----------------------------------------------------------------------------
\* The device: a key arrives; the transmitter runs empty and says so.
Type(ch) ==
    /\ uart.rx = "none" /\ keys < KEYS
    /\ uart' = [uart EXCEPT !.rx = ch] /\ keys' = keys + 1
    /\ UNCHANGED <<cpu, lock, cons, tx, plic, asleep, rvars, next, last>>
Transmit ==
    /\ uart.thr # << >>
    /\ uart' = [uart EXCEPT !.thr = Tail(@), !.irq = Len(uart.thr) = 1]
    /\ UNCHANGED <<cpu, lock, cons, tx, plic, asleep, rvars, next, last, keys>>

\* kerneltrap() or usertrap(), devintr(), plic_claim(): the CPU has interrupts off in
\* the handler.
Interrupt(c) ==
    /\ cpu[c].sie /\ plic = 0 /\ (uart.rx # "none" \/ uart.irq)
    /\ plic' = c
    /\ cpu' = [cpu EXCEPT ![c] = [@ EXCEPT !.sie = FALSE, !.ih = F("getc")]]
    /\ uart' = [uart EXCEPT !.irq = FALSE]
    /\ UNCHANGED <<lock, cons, tx, asleep, rvars, next, last, keys>>
Complete(c) ==
    /\ At(c, "complete")
    /\ plic' = 0
    /\ cpu' = [cpu EXCEPT ![c] = [@ EXCEPT !.sie = TRUE, !.ih = F("none")]]
    /\ UNCHANGED <<lock, cons, tx, uart, asleep, rvars, next, last, keys>>

\* Faulty uartintr: the transmitter is not started.
uartintrNoStart(c) ==
    /\ At(c, "getc")
    /\ IF uart.rx = "none" THEN Go(c, F("complete")) /\ UNCHANGED <<uart, lock>>
       ELSE /\ acquire(c, "cons", [pc |-> "intr", ch |-> uart.rx])
            /\ uart' = [uart EXCEPT !.rx = "none"]
    /\ UNCHANGED <<cons, tx, plic, asleep, rvars, next, last, keys>>

\* uartintr(): every byte there is goes to consoleintr(), then uartstart().
uartintr(c) ==
    /\ At(c, "getc")
    /\ IF uart.rx = "none" THEN acquire(c, "tx", F("start")) /\ UNCHANGED uart
       ELSE /\ acquire(c, "cons", [pc |-> "intr", ch |-> uart.rx])
            /\ uart' = [uart EXCEPT !.rx = "none"]
    /\ UNCHANGED <<cons, tx, plic, asleep, rvars, next, last, keys>>

\* consputc(): uartputc_sync() spins on LSR_TX_IDLE with interrupts off and takes no
\* lock; then it writes the THR.  (The three bytes of a BACKSPACE are one here.)
Echo(then) == [pc |-> "echo", then |-> then]
EchoReady(c) ==
    /\ At(c, "echo") /\ uart.thr = << >>
    /\ cpu' = [cpu EXCEPT ![c] = With(push_off(@), c, [Frame(c) EXCEPT !.pc = "echoput"])]
    /\ UNCHANGED <<lock, cons, tx, uart, plic, asleep, rvars, next, last, keys>>
EchoPut(c) ==
    /\ At(c, "echoput")
    /\ uart' = [uart EXCEPT !.thr = Append(@, "x"), !.irq = FALSE]
    /\ cpu' = [cpu EXCEPT ![c] = With(pop_off(@), c, Frame(c).then)]
    /\ UNCHANGED <<lock, cons, tx, plic, asleep, rvars, next, last, keys>>

Room == (cons.e - cons.r) % WORD < INPUT_BUF_SIZE
Back == [cons EXCEPT !.e = (@ - 1) % WORD]

\* consoleintr(): ^U erases to the start of the line, ^H one byte; any other byte is
\* echoed, then stored by StoreByte, if there is room.
consoleintr(c) ==
    LET ch == Frame(c).ch
        erases == cons.e # cons.w /\ (ch = "bs" \/ At1((cons.e - 1) % WORD) # "nl")
    IN  /\ At(c, "intr")
        /\ \/ /\ ch \in {"kill", "bs"} /\ erases
              /\ cons' = Back /\ Go(c, Echo(IF ch = "bs" THEN F("out") ELSE Frame(c)))
              /\ UNCHANGED lock
           \/ /\ ch \notin {"kill", "bs"} /\ Room
              /\ Go(c, Echo([Frame(c) EXCEPT !.pc = "store"])) /\ UNCHANGED <<cons, lock>>
           \/ /\ IF ch \in {"kill", "bs"} THEN ~erases ELSE ~Room
              /\ release(c, "cons", F("getc")) /\ UNCHANGED cons
        /\ UNCHANGED <<tx, uart, plic, asleep, rvars, next, last, keys>>
Erased(c) ==
    /\ At(c, "out") /\ release(c, "cons", F("getc"))
    /\ UNCHANGED <<cons, tx, uart, plic, asleep, rvars, next, last, keys>>

\* The rest of consoleintr(): a line, an end of file or a full buffer wakes the reader.
StoreByte(c) ==
    LET ch == IF Frame(c).ch = "cr" THEN "nl" ELSE Frame(c).ch
        e == (cons.e + 1) % WORD
        line == ch \in {"nl", "eof"} \/ (e - cons.r) % WORD = INPUT_BUF_SIZE
    IN  /\ At(c, "store")
        /\ cons' = [cons EXCEPT !.buf[cons.e % INPUT_BUF_SIZE] = ch, !.e = e, !.w = IF line THEN e ELSE @]
        /\ IF line THEN WakeReader ELSE UNCHANGED reader
        /\ release(c, "cons", F("getc"))
        /\ UNCHANGED <<tx, uart, plic, asleep, left, next, last, keys>>

-----------------------------------------------------------------------------
Step(c) ==
    \/ Spin(c) \/ Awake(c)
    \/ uartputc(c) \/ uartstart(c) \/ SendNext(c)
    \/ uartintr(c) \/ consoleintr(c) \/ Erased(c) \/ EchoReady(c) \/ EchoPut(c) \/ StoreByte(c) \/ Complete(c)
Next ==
    \/ \E c \in Cpus : Step(c) \/ Interrupt(c)
    \/ consoleread \/ WriteCall \/ Kill \/ Transmit
    \/ \E ch \in Chars : Type(ch)
Spec == Init /\ [][Next]_vars

\* CPUs run, one of them takes a pending interrupt, the UART transmits; keys and calls
\* come as they like.
Fairness ==
    /\ \A c \in Cpus : SF_vars(Step(c))
    /\ SF_vars(\E c \in Cpus : Interrupt(c)) /\ WF_vars(Transmit)
FairSpec == Spec /\ Fairness

-----------------------------------------------------------------------------
\* The CPUs, the locks, the rings and the processes keep their types; push_off() nests at
\* most twice and the indices stay below their word.
TypeOK ==
    /\ \A c \in Cpus : cpu[c].noff \in 0..2 /\ cpu[c].intena \in BOOLEAN /\ cpu[c].sie \in BOOLEAN
    /\ lock \in [LockNames -> Cpus \cup {0}]
    /\ \A k \in {cons.r, cons.w, cons.e} : k \in 0..WORD-1
    /\ tx.r \in 0..TXWORD-1 /\ tx.w \in 0..TXWORD-1
    /\ plic \in Cpus \cup {0} /\ asleep \subseteq {Writer}
    /\ reader \in {"user", "asleep", "woken", "killed", "dead"} /\ left \in 1..READ

\* push_off() and pop_off(): a CPU that holds a lock has interrupts off, and none spins on
\* a lock it holds itself, as a handler would that interrupted the holder.
NoSelfDeadlock ==
    \A c \in Cpus :
        /\ (\E l \in LockNames : lock[l] = c) => ~cpu[c].sie
        /\ Frame(c).pc = "spin" => lock[Frame(c).lk] # c
        /\ cpu[c].noff = 0 => \A l \in LockNames : lock[l] # c

\* acquire(), release() and the interrupts between them: the nesting of push_off() stays
\* within its type, and no CPU waits for itself.
LocksSound == TypeOK /\ NoSelfDeadlock

\* uartstart() and uartputc_sync() look at LSR_TX_IDLE and write the THR without a common
\* lock: what the FIFO must take is one byte for each CPU, no more.
FifoSuffices == Len(uart.thr) <= Cardinality(Cpus)

\* The ring of uartputc() and uartstart() hands every byte on once and in order.
Sent == (tx.w - tx.r) % TXWORD
InOrder ==
    /\ Sent <= UART_TX_BUF_SIZE
    /\ \A j \in 0..Sent-1 :
          tx.buf[((tx.r + j) % TXWORD) % UART_TX_BUF_SIZE] = (last + 1 + j) % 2
    /\ next = (last + 1 + Sent) % 2

\* Output on its way from uartputc() to the line: in order, and never more in the FIFO
\* than one byte for each CPU.
OutputInOrder == InOrder /\ FifoSuffices

\* No wakeup is lost: a reader sleeps only while there is no line, a writer only while
\* the ring is full.
NoLostWakeup ==
    /\ reader = "asleep" /\ lock["cons"] = 0 => cons.r = cons.w
    /\ Writer \in asleep /\ lock["tx"] = 0 => TxFull

\* A writer that sleeps in uartputc() is woken: whoever fills the THR, a transmit
\* interrupt follows.
WriterProceeds == Writer \in asleep ~> Writer \notin asleep

\* The indices r, w and e implement a line editor.
Line == INSTANCE LineEditor WITH
    N <- INPUT_BUF_SIZE, done <- Bytes(cons.r, cons.w), edit <- Bytes(cons.w, cons.e)
EditsLines == Line!Spec
=============================================================================
