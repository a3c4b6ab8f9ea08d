------------------------------ MODULE Terminal ------------------------------
(***************************************************************************)
(* The console and the UART: kernel/console.c and kernel/uart.c.           *)
(*                                                                         *)
(* Readers call consoleread, writers consolewrite, and "intr" is uartintr, *)
(* on any CPU.  cons.lock and uart_tx_lock are held across steps where the *)
(* code reads the line status and then writes the transmit register, since *)
(* echo does so too without uart_tx_lock.  The device takes characters     *)
(* into a FIFO, is idle when that is empty, and raises its interrupt when  *)
(* it becomes so or when input arrives.  The free running indices wrap at  *)
(* Wrap, a multiple of both buffer sizes as 2^32 is of theirs, and start   *)
(* where so many earlier characters have left them.                        *)
(***************************************************************************)
EXTENDS Naturals, Sequences, FiniteSets, SequencesExt

CONSTANTS Readers, Writers,
          INPUT_BUF, UART_TX_BUF_SIZE, Wrap,
          FIFO,       \* the device's transmit FIFO
          Lengths,    \* of reads and writes
          Chars,      \* what is typed
          Budgets     \* bounds: characters typed, writes and kills made, who reads, and
                      \* where the indices of the empty buffers start

ASSUME TerminalAssumption ==
  /\ INPUT_BUF \in Nat \ {0} /\ UART_TX_BUF_SIZE \in Nat \ {0}
  /\ Wrap % INPUT_BUF = 0 /\ Wrap % UART_TX_BUF_SIZE = 0
  /\ INPUT_BUF < Wrap /\ UART_TX_BUF_SIZE < Wrap
  /\ \A b \in Budgets : b.start \in 0..(Wrap - 1)

Actors == Readers \cup Writers \cup {"intr"}

VARIABLES cons,      \* buf and the indices r, w and e
          conslock, txlock,   \* their holders
          tx,        \* uart_tx_buf, and the indices r and w
          pc, asleep, killed,
          rd,        \* per reader: bytes still wanted, and those read
          wr,        \* per writer: bytes still to write, and the number put
          hand,      \* the byte an actor is about to send, or the echoes due
          rx, irq, fifo, sent,   \* the device, and the last byte of each writer it sent
          budget

vars == <<cons, conslock, txlock, tx, pc, asleep, killed, rd, wr, hand, rx, irq, fifo, sent, budget>>
device == <<rx, irq, fifo, sent, budget>>
input == <<cons, conslock, rd, killed>>
output == <<tx, txlock, wr, hand>>

Free == "free"
None == <<"none", 0>>
Inc(x) == (x + 1) % Wrap
Dec(x) == (x + Wrap - 1) % Wrap
Dist(a, b) == (b + Wrap - a) % Wrap

EmptyCons(x) == [buf |-> [k \in 0..(INPUT_BUF - 1) |-> "0"], r |-> x, w |-> x, e |-> x]
EmptyTx(x) == [buf |-> [k \in 0..(UART_TX_BUF_SIZE - 1) |-> None], r |-> x, w |-> x]

Init ==
  /\ budget \in Budgets
  /\ cons = EmptyCons(budget.start) /\ tx = EmptyTx(budget.start)
  /\ conslock = Free /\ txlock = Free
  /\ pc = [a \in Actors |-> "idle"] /\ asleep = {} /\ killed = {}
  /\ rd = [p \in Readers |-> [n |-> 0, line |-> <<>>]]
  /\ wr = [p \in Writers |-> [n |-> 0, put |-> 0]]
  /\ hand = [a \in Actors |-> None]
  /\ rx = <<>> /\ irq = FALSE /\ fifo = <<>> /\ sent = [p \in Writers |-> 0]

Goto(a, l) == pc' = [pc EXCEPT ![a] = l]

-----------------------------------------------------------------------------
(* consoleread.                                                            *)
consoleread(p) ==
  /\ pc[p] = "idle" /\ p \in budget.readers \ killed
  /\ \E n \in Lengths : rd' = [rd EXCEPT ![p] = [n |-> n, line |-> <<>>]]
  /\ Goto(p, "acquire") /\ UNCHANGED <<cons, conslock, killed, asleep, output, device>>

consolereadLock(p) ==
  /\ pc[p] = "acquire" /\ p \notin asleep /\ conslock = Free
  /\ conslock' = p /\ Goto(p, "loop") /\ UNCHANGED <<cons, rd, killed, asleep, output, device>>

\* Nothing to read: give up when killed, or sleep.  A kill between the test and
\* the sleep wakes nobody.
consolereadWait(p) ==
  /\ pc[p] = "loop" /\ rd[p].n > 0 /\ cons.r = cons.w
  /\ IF p \in killed THEN Goto(p, "idle") /\ conslock' = Free
     ELSE Goto(p, "sleep") /\ UNCHANGED conslock
  /\ UNCHANGED <<cons, rd, killed, asleep, output, device>>

consolereadSleep(p) ==
  /\ pc[p] = "sleep" /\ Goto(p, "acquire") /\ asleep' = asleep \cup {p}
  /\ conslock' = Free /\ UNCHANGED <<cons, rd, killed, output, device>>

\* One character.  ^D ends the read, and stays for the next one when this one
\* has data; so does a bad destination, and the end of the line.
consolereadTake(p) ==
  LET c == cons.buf[cons.r % INPUT_BUF]
  IN /\ pc[p] = "loop" /\ rd[p].n > 0 /\ cons.r # cons.w
     /\ cons' = [cons EXCEPT !.r = IF c = "eof" /\ rd[p].line # <<>> THEN @ ELSE Inc(@)]
     /\ \/ /\ c # "eof" /\ rd' = [rd EXCEPT ![p] = [n |-> @.n - 1, line |-> Append(@.line, c)]]
           /\ IF c = "nl" THEN Goto(p, "idle") /\ conslock' = Free ELSE UNCHANGED <<pc, conslock>>
        \/ conslock' = Free /\ Goto(p, "idle") /\ UNCHANGED rd
     /\ UNCHANGED <<killed, asleep, output, device>>

consolereadEnd(p) ==
  /\ pc[p] = "loop" /\ rd[p].n = 0
  /\ conslock' = Free /\ Goto(p, "idle") /\ UNCHANGED <<cons, rd, killed, asleep, output, device>>

kill(p) ==
  /\ budget.kill > 0 /\ killed' = killed \cup {p} /\ asleep' = asleep \ {p}
  /\ budget' = [budget EXCEPT !.kill = @ - 1]
  /\ UNCHANGED <<cons, conslock, rd, pc, output, rx, irq, fifo, sent>>

-----------------------------------------------------------------------------
(* uartintr and consoleintr.                                               *)
uartintr ==
  /\ pc["intr"] = "idle" /\ irq /\ irq' = FALSE /\ Goto("intr", "getc")
  /\ UNCHANGED <<input, asleep, output, rx, fifo, sent, budget>>

\* Mutant of uartgetc: the interrupt is for input only.
uartgetcOnly ==
  /\ pc["intr"] = "getc" /\ rx = <<>> /\ txlock = Free
  /\ Goto("intr", "idle") /\ UNCHANGED <<input, asleep, output, device>>

\* No more input: on to the output, under its lock.
uartgetc ==
  /\ pc["intr"] = "getc" /\ rx = <<>> /\ txlock = Free /\ txlock' = "intr"
  /\ Goto("intr", "start") /\ UNCHANGED <<input, asleep, tx, wr, hand, device>>

\* Where the line being edited ends after ^U or a backspace.
Erased(c) ==
  LET kept == {k \in 0..Dist(cons.w, cons.e) : k > 0 => cons.buf[(cons.w + k - 1) % INPUT_BUF] = "nl"}
  IN IF c = "kill" THEN (cons.w + Max(kept)) % Wrap
     ELSE IF cons.e = cons.w THEN cons.e ELSE Dec(cons.e)

\* Mutant of Stored: full is tested on numbers that do not wrap.
StoredWide(c) ==
  LET e == Inc(cons.e)
  IN [cons EXCEPT !.buf[cons.e % INPUT_BUF] = c, !.e = e,
        !.w = IF c \in {"nl", "eof"} \/ e = cons.r + INPUT_BUF THEN e ELSE @]

Stored(c) ==
  LET e == Inc(cons.e)
  IN [cons EXCEPT !.buf[cons.e % INPUT_BUF] = c, !.e = e,
        !.w = IF c \in {"nl", "eof"} \/ e = (cons.r + INPUT_BUF) % Wrap THEN e ELSE @]

\* A character is stored unless it is 0 or the buffer is full.
Takes(c) == c # "nul" /\ Dist(cons.r, cons.e) < INPUT_BUF

Edited(c) ==
  IF c \in {"kill", "bs"} THEN [cons EXCEPT !.e = Erased(c)]
  ELSE IF Takes(c) THEN Stored(c) ELSE cons

\* The echo: three characters for each one erased, or the character.  (^P,
\* not modelled, changes no state: its listing is printed like an echo.)
Echoes(c) ==
  IF c \in {"kill", "bs"} THEN 3 * Dist(Erased(c), cons.e)
  ELSE IF Takes(c) THEN 1 ELSE 0

\* Mutant of consoleintr: readers are only woken at the end of a line.
consoleintrLine ==
  /\ pc["intr"] = "getc" /\ rx # <<>> /\ conslock = Free
  /\ LET c == Head(rx)
     IN /\ cons' = Edited(c) /\ hand' = [hand EXCEPT !["intr"] = <<"echo", Echoes(c)>>]
        /\ asleep' = IF c \in {"nl", "eof"} THEN asleep \ Readers ELSE asleep
  /\ rx' = Tail(rx) /\ conslock' = "intr" /\ Goto("intr", "echo")
  /\ UNCHANGED <<killed, rd, tx, txlock, wr, irq, fifo, sent, budget>>

\* The edit, and the wakeup when w moves; the lock is kept for the echo.
consoleintr ==
  /\ pc["intr"] = "getc" /\ rx # <<>> /\ conslock = Free
  /\ LET c == Head(rx)
     IN /\ cons' = Edited(c) /\ hand' = [hand EXCEPT !["intr"] = <<"echo", Echoes(c)>>]
        /\ asleep' = IF Edited(c).w # cons.w THEN asleep \ Readers ELSE asleep
  /\ rx' = Tail(rx) /\ conslock' = "intr" /\ Goto("intr", "echo")
  /\ UNCHANGED <<killed, rd, tx, txlock, wr, irq, fifo, sent, budget>>

consoleintrEnd ==
  /\ pc["intr"] = "echo" /\ hand["intr"][2] = 0
  /\ conslock' = Free /\ Goto("intr", "getc")
  /\ UNCHANGED <<cons, killed, rd, asleep, output, device>>

\* uartputc_sync waits until the device is idle, and sends.
Idle == fifo = <<>>
uartputc_sync ==
  /\ pc["intr"] = "echo" /\ hand["intr"][2] > 0 /\ Idle
  /\ Goto("intr", "echoTHR") /\ UNCHANGED <<input, asleep, output, device>>

WriteTHR(b) == fifo' = IF Len(fifo) < FIFO THEN Append(fifo, b) ELSE fifo

uartputc_syncTHR ==
  /\ pc["intr"] = "echoTHR" /\ WriteTHR(None)
  /\ hand' = [hand EXCEPT !["intr"][2] = @ - 1] /\ Goto("intr", "echo")
  /\ UNCHANGED <<input, asleep, tx, txlock, wr, rx, irq, sent, budget>>

-----------------------------------------------------------------------------
(* consolewrite, uartputc and uartstart.                                   *)
consolewrite(p) ==
  /\ pc[p] = "idle" /\ budget.write > 0
  /\ budget' = [budget EXCEPT !.write = @ - 1]
  /\ \E n \in Lengths : wr' = [wr EXCEPT ![p].n = n]
  /\ Goto(p, "put") /\ UNCHANGED <<input, asleep, tx, txlock, hand, rx, irq, fifo, sent>>

consolewriteEnd(p) ==
  /\ pc[p] = "put" /\ wr[p].n = 0 /\ Goto(p, "idle")
  /\ UNCHANGED <<input, asleep, output, device>>

\* The address of the next byte is bad: the write returns what it has done.
consolewriteFault(p) ==
  /\ pc[p] = "put" /\ wr[p].n > 0 /\ p \notin asleep
  /\ wr' = [wr EXCEPT ![p].n = 0] /\ UNCHANGED <<input, asleep, tx, txlock, hand, pc, device>>

Full == tx.w = (tx.r + UART_TX_BUF_SIZE) % Wrap

\* Mutant of uartputc: one place more than there is.
uartputcOver(p) ==
  /\ pc[p] = "put" /\ wr[p].n > 0 /\ p \notin asleep /\ txlock = Free
  /\ IF tx.w = (tx.r + UART_TX_BUF_SIZE + 1) % Wrap
     THEN asleep' = asleep \cup {p} /\ UNCHANGED <<tx, txlock, wr, pc>>
     ELSE /\ tx' = [tx EXCEPT !.buf[tx.w % UART_TX_BUF_SIZE] = <<p, wr[p].put + 1>>, !.w = Inc(@)]
          /\ wr' = [wr EXCEPT ![p] = [n |-> @.n - 1, put |-> @.put + 1]]
          /\ txlock' = p /\ Goto(p, "start") /\ UNCHANGED asleep
  /\ UNCHANGED <<input, hand, device>>

\* A full buffer puts the writer to sleep, which gives up the lock.
uartputc(p) ==
  /\ pc[p] = "put" /\ wr[p].n > 0 /\ p \notin asleep /\ txlock = Free
  /\ IF Full THEN asleep' = asleep \cup {p} /\ UNCHANGED <<tx, txlock, wr, pc>>
     ELSE /\ tx' = [tx EXCEPT !.buf[tx.w % UART_TX_BUF_SIZE] = <<p, wr[p].put + 1>>, !.w = Inc(@)]
          /\ wr' = [wr EXCEPT ![p] = [n |-> @.n - 1, put |-> @.put + 1]]
          /\ txlock' = p /\ Goto(p, "start") /\ UNCHANGED asleep
  /\ UNCHANGED <<input, hand, device>>

\* The device is idle: take the next byte, wake the writers, send it.
uartstart(a) ==
  /\ pc[a] = "start" /\ tx.r # tx.w /\ Idle
  /\ hand' = [hand EXCEPT ![a] = tx.buf[tx.r % UART_TX_BUF_SIZE]]
  /\ tx' = [tx EXCEPT !.r = Inc(@)] /\ asleep' = asleep \ Writers
  /\ Goto(a, "startTHR") /\ UNCHANGED <<input, txlock, wr, device>>

uartstartTHR(a) ==
  /\ pc[a] = "startTHR" /\ WriteTHR(hand[a])
  /\ hand' = [hand EXCEPT ![a] = None] /\ Goto(a, "start")
  /\ UNCHANGED <<input, asleep, tx, txlock, wr, rx, irq, sent, budget>>

\* The buffer is empty, or the device busy: it will interrupt.
uartstartEnd(a) ==
  /\ pc[a] = "start" /\ (tx.r = tx.w \/ ~Idle) /\ txlock' = Free
  /\ Goto(a, IF a = "intr" THEN "idle" ELSE "put")
  /\ UNCHANGED <<input, asleep, tx, wr, hand, device>>

-----------------------------------------------------------------------------
(* The device, and who types.                                              *)
Type ==
  /\ budget.type > 0 /\ rx = <<>> /\ \E c \in Chars : rx' = Append(rx, c)
  /\ irq' = TRUE /\ budget' = [budget EXCEPT !.type = @ - 1]
  /\ UNCHANGED <<input, output, pc, asleep, fifo, sent>>

DeviceSend ==
  /\ fifo # <<>> /\ fifo' = Tail(fifo) /\ irq' = (irq \/ Tail(fifo) = <<>>)
  /\ sent' = IF Head(fifo) = None THEN sent ELSE [sent EXCEPT ![Head(fifo)[1]] = Head(fifo)[2]]
  /\ UNCHANGED <<input, output, pc, asleep, rx, budget>>

Read(p) ==
  \/ consolereadLock(p) \/ consolereadWait(p) \/ consolereadSleep(p)
  \/ consolereadTake(p) \/ consolereadEnd(p)
Send(a) == uartstart(a) \/ uartstartTHR(a) \/ uartstartEnd(a)
Intr ==
  \/ uartintr \/ uartgetc \/ consoleintr \/ consoleintrEnd \/ uartputc_sync
  \/ uartputc_syncTHR \/ Send("intr")

Next ==
  \/ \E p \in Readers : consoleread(p) \/ Read(p) \/ kill(p)
  \/ \E p \in Writers : \/ consolewrite(p) \/ consolewriteEnd(p) \/ consolewriteFault(p)
                          \/ uartputc(p) \/ Send(p)
  \/ Intr \/ Type \/ DeviceSend

\* A process or handler that can take a step does, the device sends, and readers
\* keep reading.
Fairness ==
  /\ \A p \in Readers : WF_vars(consoleread(p) \/ Read(p))
  /\ \A p \in Writers : WF_vars(consolewriteEnd(p) \/ uartputc(p) \/ Send(p))
  /\ WF_vars(Intr) /\ WF_vars(DeviceSend)

Spec == Init /\ [][Next]_vars /\ Fairness

-----------------------------------------------------------------------------
\* Holders, indices and buffers are of their types.
TypeOK ==
  /\ {cons.r, cons.w, cons.e, tx.r, tx.w} \subseteq 0..(Wrap - 1)
  /\ conslock \in Readers \cup {"intr", Free} /\ txlock \in Writers \cup {"intr", Free}
  /\ Len(fifo) <= FIFO /\ asleep \subseteq Readers \cup Writers

Line == INSTANCE LineSpec WITH
  Capacity <- INPUT_BUF,
  edit <- [k \in 1..Dist(cons.w, cons.e) |-> cons.buf[(cons.w + k - 1) % INPUT_BUF]],
  ready <- [k \in 1..Dist(cons.r, cons.w) |-> cons.buf[(cons.r + k - 1) % INPUT_BUF]],
  line <- [p \in Readers |-> rd[p].line]

\* The circular buffer with its three wrapping indices is a line editor: no
\* character is lost, changed or read twice, whatever is typed while readers
\* sleep, drain it or are killed.
ImplementsLine == Line!LineSpecification

\* The bytes of writer p among those in the device, on their way and buffered.
Way(p) ==
  LET held == SelectSeq(SetToSeq({hand[a] : a \in {a \in Actors : pc[a] = "startTHR"}}),
                        LAMBDA b : b[1] = p)
      ring == [k \in 1..Dist(tx.r, tx.w) |-> tx.buf[(tx.r + k - 1) % UART_TX_BUF_SIZE]]
      mine(s) == SelectSeq(s, LAMBDA b : b[1] = p)
  IN mine(fifo) \o held \o mine(ring)

\* What a process writes leaves in order and complete: the device gets every
\* byte once, though echo and uartstart race for its transmit register.  (With the
\* types of all variables.)
NothingLost ==
  TypeOK /\ \A p \in Writers : Way(p) = [k \in 1..(wr[p].put - sent[p]) |-> <<p, sent[p] + k>>]

\* Every write to the console returns, and what it left in the buffer is sent,
\* though uartstart gives up at a busy device and leaves the rest to an interrupt.
OutputSent ==
  (tx.r # tx.w ~> tx.r = tx.w) /\ \A p \in Writers : pc[p] = "put" ~> pc[p] = "idle"

\* A complete line is read, while somebody reads.
InputRead == cons.r # cons.w ~> (cons.r = cons.w \/ budget.readers \subseteq killed)
=============================================================================
