-------------------------------- MODULE Tty --------------------------------
(***************************************************************************)
(* The tty driver: ring buffers for input, output and echo between the     *)
(* processes that read and write and the interrupts of the UART.           *)
(*                                                                         *)
(* A device call runs with interrupts disabled until it blocks; interrupts *)
(* come when no process is `masked'.  The two semaphores are guarded by    *)
(* counts that include what has been promised to processes that have been  *)
(* released and have not resumed: the buffers themselves tell the truth.   *)
(*                                                                         *)
(* The options that ttyinit() sets and ttycontrol() cannot change (mapping *)
(* of \r, erase, kill, flow control, end of file) are on.                  *)
(***************************************************************************)
EXTENDS Calls

CONSTANTS
  TY_IBUFLEN, TY_OBUFLEN, TY_EBUFLEN,   \* sizes of the three rings
  UART_FIFO_SIZE,                       \* characters sent per interrupt
  TypedChars,                           \* characters that arrive
  ReadCounts, WriteCounts               \* counts passed to read() and write()

COOKED == "cooked"
RAW    == "raw"
CBREAK == "cbreak"

tyisem == 0
tyosem == 1
ISlots == 0..(TY_IBUFLEN - 1)
OSlots == 0..(TY_OBUFLEN - 1)
Old == "old"    \* a character that has been read or erased

VARIABLES
  tyimode, tyiecho,
  tyihead, tyitail, tyibuff, tyicursor,
  tyohead, tyotail, tyofull,   \* tyofull: slots with a character to send
  tyefill,                     \* characters in the echo ring
  tyoheld,                     \* output is held by ^S
  thre,                        \* a transmitter interrupt is enabled and due
  unheld,                      \* history: ^S has been undone by a character other than ^Q
  idebt,                       \* history: characters overwritten before they were read
  odebt,                       \* history: slots sent before they were filled
  silent,                      \* history: characters stored without a signal
  overrun                      \* the driver has written behind tyibuff

ttyInput == <<tyihead, tyitail, tyibuff, tyicursor, idebt, silent, overrun>>
ttyOutput == <<tyohead, tyotail, tyofull, odebt>>
ttyUart == <<tyefill, tyoheld, thre, unheld>>
ttyVars == <<tyimode, tyiecho, ttyInput, ttyOutput, ttyUart>>

TtySems ==
  semtab = [s \in SemIds |->
              IF s = tyisem THEN [used |-> TRUE, count |-> 0, queue |-> <<>>]
              ELSE IF s = tyosem THEN [used |-> TRUE, count |-> TY_OBUFLEN, queue |-> <<>>]
              ELSE Unused]

ttyinit ==
  /\ tyimode = COOKED /\ tyiecho = TRUE
  /\ tyihead = 0 /\ tyitail = 0 /\ tyicursor = 0
  /\ tyibuff = [i \in ISlots |-> Old]
  /\ tyohead = 0 /\ tyotail = 0 /\ tyofull = {}
  /\ tyefill = 0 /\ tyoheld = FALSE /\ thre = TRUE /\ unheld = FALSE
  /\ idebt = 0 /\ odebt = 0 /\ silent = 0 /\ overrun = FALSE

icount == semtab[tyisem].count
ocount == semtab[tyosem].count
avail == IF icount < 0 THEN 0 ELSE icount

-----------------------------------------------------------------------------
(* Upper half: read, write and control                                     *)

begin(p, c) ==
  /\ InUser(p)
  /\ call' = [call EXCEPT ![p] = c]
  /\ masked' = p
  /\ UNCHANGED <<semtab, panicked, kills, ttyVars>>

\* A read of 0 characters takes what is there, unless in cooked mode, where it
\* takes one like a read of 1.
ttyread(p, count) ==
  LET n == IF count > 0 THEN count ELSE IF tyimode = COOKED THEN 1 ELSE avail
  IN  /\ n > 0
      /\ begin(p, [op |-> "getc wait", left |-> n,
                   cooked |-> tyimode = COOKED, first |-> TRUE])

\* A newline is sent as two characters.
ttywrite(p, count) == begin(p, [op |-> "putc wait", left |-> count])

ttynextc(p) == begin(p, [op |-> "nextc wait"])

\* wait() in ttygetc(), ttyputc() and ttycontrol().
tty_wait(p) ==
  LET c == call[p]
      s == IF c.op = "putc wait" THEN tyosem ELSE tyisem
      t == wait(semtab, s, p)
      next == CASE c.op = "getc wait"  -> "getc"
                [] c.op = "putc wait"  -> "putc"
                [] c.op = "nextc wait" -> "nextc"
  IN  /\ Runs(p) /\ c.op \in {"getc wait", "putc wait", "nextc wait"}
      /\ semtab' = t
      /\ call' = [call EXCEPT ![p].op = next]
      /\ masked' = IF WaitsIn(t, p) THEN None ELSE p
      /\ UNCHANGED <<panicked, kills, ttyVars>>

continue(p, done, c) ==
  /\ call' = [call EXCEPT ![p] = IF done THEN Idle ELSE c]
  /\ masked' = IF done THEN None ELSE p

\* ttygetc() after its wait(), and the loop of ttyread() around it: a line ends
\* a read that began in cooked mode, and so does an end of file in front.
ttygetc(p) ==
  LET c == call[p]
      ch == tyibuff[tyihead]
      eof == tyimode = COOKED /\ ch = "eof"
  IN  /\ Resumes(p, "getc")
      /\ tyihead' = (tyihead + 1) % TY_IBUFLEN
      /\ tyibuff' = [tyibuff EXCEPT ![tyihead] = Old]
      /\ idebt' = IF ch = Old THEN idebt - 1 ELSE idebt
      /\ continue(p, c.left = 1 \/ (c.cooked /\ (ch = "nl" \/ (eof /\ c.first))),
                  [c EXCEPT !.op = "getc wait", !.left = @ - 1, !.first = FALSE])
      /\ UNCHANGED <<semtab, panicked, kills, tyimode, tyiecho, tyitail,
                     tyicursor, silent, overrun, ttyOutput, ttyUart>>

ttykickout == thre' = TRUE /\ unheld' = FALSE

\* (Variant: the tail goes back to the start one place early.)
ttyputc_wrap(p) ==
  /\ Resumes(p, "putc")
  /\ tyofull' = tyofull \cup {tyotail}
  /\ odebt' = IF tyotail \in tyofull THEN odebt - 1 ELSE odebt
  /\ tyotail' = (tyotail + 1) % (TY_OBUFLEN - 1)
  /\ ttykickout
  /\ continue(p, call[p].left = 1, [op |-> "putc wait", left |-> call[p].left - 1])
  /\ UNCHANGED <<semtab, panicked, kills, tyimode, tyiecho, ttyInput,
                 tyohead, tyefill, tyoheld>>

\* ttyputc() after its wait(), and the loop of ttywrite() around it.
ttyputc(p) ==
  /\ Resumes(p, "putc")
  /\ tyofull' = tyofull \cup {tyotail}
  /\ odebt' = IF tyotail \in tyofull THEN odebt - 1 ELSE odebt
  /\ tyotail' = (tyotail + 1) % TY_OBUFLEN
  /\ ttykickout
  /\ continue(p, call[p].left = 1, [op |-> "putc wait", left |-> call[p].left - 1])
  /\ UNCHANGED <<semtab, panicked, kills, tyimode, tyiecho, ttyInput,
                 tyohead, tyefill, tyoheld>>

\* TC_NEXTC looks at the next character and gives its place back.
tty_nextc(p) ==
  /\ Resumes(p, "nextc")
  /\ semtab' = signal(semtab, tyisem)
  /\ Return(p)
  /\ masked' = None
  /\ UNCHANGED <<panicked, kills, ttyVars>>

ttycontrol(p) ==
  /\ InUser(p)
  /\ \/ tyimode' \in {COOKED, RAW, CBREAK} /\ UNCHANGED tyiecho
     \/ tyiecho' \in BOOLEAN /\ UNCHANGED tyimode
  /\ UNCHANGED <<callVars, ttyInput, ttyOutput, ttyUart>>

-----------------------------------------------------------------------------
(* Lower half: characters that arrive                                      *)

\* *tyitail++ = ch, with tyitail back at the start when `wrap' is set and it
\* has reached the end.  One byte behind the buffer is the semaphore's id.
\* (Which of the other characters it is makes no difference any more.)
kept(ch) == IF ch \in {"nl", "eof"} THEN ch ELSE "c"

store(ch, wrap) ==
  IF tyitail = TY_IBUFLEN
  THEN overrun' = TRUE /\ UNCHANGED <<tyitail, tyibuff, idebt>>
  ELSE /\ tyibuff' = [tyibuff EXCEPT ![tyitail] = kept(ch)]
       /\ idebt' = IF tyibuff[tyitail] = Old THEN idebt ELSE idebt + 1
       /\ tyitail' = IF wrap THEN (tyitail + 1) % TY_IBUFLEN ELSE tyitail + 1
       /\ UNCHANGED overrun

\* eputc() n times.  The echo ring is not checked: it loses all it holds when
\* its tail reaches its head.
echo(n) ==
  /\ tyefill' = (tyefill + n) % TY_EBUFLEN
  /\ IF n > 0 THEN ttykickout
     ELSE UNCHANGED thre /\ unheld' = (unheld \/ tyoheld)

\* echoch(): a newline and a control character take two places.
echoch(ch) == echo(IF ~tyiecho THEN 0 ELSE IF ch \in {"nl", "eof"} THEN 2 ELSE 1)

\* The n characters before tyitail are taken back.
back(n) == (tyitail - n + TY_IBUFLEN) % TY_IBUFLEN
takeback(n) ==
  LET gone == {(back(n) + i) % TY_IBUFLEN : i \in 0..(n - 1)}
  IN  /\ tyitail' = IF n = 0 THEN tyitail ELSE back(n)
      /\ tyibuff' = [i \in ISlots |-> IF i \in gone THEN Old ELSE tyibuff[i]]
      /\ idebt' = idebt - Cardinality({i \in gone : tyibuff[i] = Old})
      /\ UNCHANGED overrun

Interrupt == ~overrun /\ ~panicked /\ masked = None

in_raw(ch) ==
  /\ tyimode = RAW /\ avail < TY_IBUFLEN
  /\ store(ch, TRUE)
  /\ semtab' = signal(semtab, tyisem)
  /\ UNCHANGED <<tyicursor, silent, ttyUart>>

\* (Variant: the transmitter is not started.)
in_start_nokick ==
  /\ tyimode # RAW
  /\ tyoheld' = FALSE
  /\ UNCHANGED <<semtab, ttyInput, tyefill, thre, unheld>>

in_start ==
  /\ tyimode # RAW
  /\ tyoheld' = FALSE
  /\ ttykickout
  /\ UNCHANGED <<semtab, ttyInput, tyefill>>

in_stop ==
  /\ tyimode # RAW
  /\ tyoheld' = TRUE
  /\ UNCHANGED <<semtab, ttyInput, tyefill, thre, unheld>>

\* Characters are stored in cbreak mode, but nobody is told.
in_cbreak(ch) ==
  /\ tyimode = CBREAK
  /\ tyoheld' = FALSE
  /\ \/ avail >= TY_IBUFLEN /\ echo(1) /\ UNCHANGED <<tyitail, tyibuff, idebt, overrun, silent>>
     \/ avail < TY_IBUFLEN /\ store(ch, TRUE) /\ echoch(ch) /\ silent' = silent + 1
  /\ UNCHANGED <<semtab, tyicursor>>

cooked == tyimode = COOKED /\ tyoheld' = FALSE

\* (Variant: the cursor stays.)
in_kill_cursor ==
  /\ cooked
  /\ takeback(tyicursor)
  /\ echo(2)
  /\ UNCHANGED <<semtab, tyicursor, silent>>

in_kill ==
  /\ cooked
  /\ takeback(tyicursor)
  /\ tyicursor' = 0
  /\ echo(2)
  /\ UNCHANGED <<semtab, silent>>

in_erase ==
  /\ cooked
  /\ IF tyicursor > 0
     THEN takeback(1) /\ echo(IF tyiecho THEN 3 ELSE 0)
     ELSE echo(0) /\ UNCHANGED <<tyitail, tyibuff, idebt, overrun>>
  /\ tyicursor' = IF tyicursor > 0 THEN tyicursor - 1 ELSE 0
  /\ UNCHANGED <<semtab, silent>>

\* The end of a line is stored whether there is room or not.
in_newline ==
  /\ cooked
  /\ echoch("nl")
  /\ store("nl", TRUE)
  /\ semtab' = signaln(semtab, tyisem, tyicursor + 1)
  /\ tyicursor' = 0
  /\ UNCHANGED silent

full == avail + tyicursor >= TY_IBUFLEN - 1

in_bell ==
  /\ cooked /\ full
  /\ echo(1)
  /\ UNCHANGED <<semtab, tyitail, tyibuff, tyicursor, idebt, silent, overrun>>

\* The end of file is stored at the beginning of a line, without a test for the
\* end of the buffer.
in_eof ==
  /\ cooked /\ ~full
  /\ echoch("eof")
  /\ IF tyicursor = 0
     THEN store("eof", FALSE) /\ semtab' = signal(semtab, tyisem)
     ELSE UNCHANGED <<semtab, tyitail, tyibuff, idebt, overrun>>
  /\ UNCHANGED <<tyicursor, silent>>

in_char ==
  /\ cooked /\ ~full
  /\ echoch("c")
  /\ store("c", TRUE)
  /\ tyicursor' = tyicursor + 1
  /\ UNCHANGED <<semtab, silent>>

ttyhandle_in(ch) ==
  /\ Interrupt
  /\ icount <= TY_IBUFLEN /\ silent = 0 /\ idebt = 0  \* bounds of the model
  /\ \/ in_raw(ch)
     \/ ch = "start" /\ in_start
     \/ ch = "stop" /\ in_stop
     \/ ch \notin {"start", "stop"} /\ in_cbreak(ch)
     \/ ch = "kill" /\ in_kill
     \/ ch = "erase" /\ in_erase
     \/ ch = "nl" /\ in_newline
     \/ ch \in {"eof", "c"} /\ in_bell
     \/ ch = "eof" /\ in_eof
     \/ ch = "c" /\ in_char
  /\ UNCHANGED <<call, masked, panicked, kills, tyimode, tyiecho, tyihead, ttyOutput>>

-----------------------------------------------------------------------------
(* Lower half: the transmitter is empty                                    *)

MinOf(a, b) == IF a < b THEN a ELSE b

\* The echo ring first, then as many characters as the semaphore says
\* there are.  The UART interrupts again when it has sent them.
ttyhandle_out ==
  LET echoed == MinOf(tyefill, UART_FIFO_SIZE)
      ochars == MinOf(UART_FIFO_SIZE - echoed, TY_OBUFLEN - ocount)
      sent == {(tyohead + i) % TY_OBUFLEN : i \in 0..(ochars - 1)}
      empty == tyefill = 0 /\ ocount >= TY_OBUFLEN
  IN  /\ Interrupt /\ thre
      /\ IF tyoheld \/ empty
         THEN /\ thre' = FALSE
              /\ UNCHANGED <<semtab, tyefill, tyohead, tyofull, odebt>>
         ELSE /\ tyefill' = tyefill - echoed
              /\ tyohead' = (tyohead + ochars) % TY_OBUFLEN
              /\ tyofull' = tyofull \ sent
              /\ odebt' = odebt + Cardinality(sent \ tyofull)
              /\ semtab' = signaln(semtab, tyosem, ochars)
              /\ UNCHANGED thre
      /\ UNCHANGED <<call, masked, panicked, kills, tyimode, tyiecho, ttyInput,
                     tyotail, tyoheld, unheld>>

TtyNext ==
  /\ ~overrun
  /\ \/ \E p \in Procs, n \in ReadCounts : ttyread(p, n)
     \/ \E p \in Procs : ttynextc(p) \/ ttycontrol(p)
     \/ \E p \in Procs, n \in WriteCounts : ttywrite(p, n)
     \/ \E p \in Procs : tty_wait(p) \/ ttygetc(p) \/ ttyputc(p) \/ tty_nextc(p)
     \/ \E ch \in TypedChars : ttyhandle_in(ch)
     \/ ttyhandle_out

TtyInit == CallInit /\ TtySems /\ ttyinit

-----------------------------------------------------------------------------
(* Properties                                                              *)

Released(ops) == {p \in Procs : call[p].op \in ops /\ ~Waiting(p)}
Unread == {i \in ISlots : tyibuff[i] # Old}

\* The characters in the input buffer are those the semaphore counts, those
\* promised to readers that have not resumed and those of the line that is being
\* typed, apart from those that cbreak mode stores in silence: whatever is
\* erased, killed, ended and read in whatever mode (ttyhandle_in.c:130).
InputAccounted ==
  ~overrun =>
    Cardinality(Unread) + idebt
      = avail + Cardinality(Released({"getc", "nextc"})) + tyicursor + silent

\* The free places the semaphore counts, those promised to writers that have not
\* resumed and the characters to send fill the output buffer (ttyhandle_out.c:54);
\* and characters leave in the order of the ring: the ones to send are contiguous, so
\* long as none was sent before it was there (ttyputc.c:33).
OutputExact ==
  /\ (IF ocount > 0 THEN ocount ELSE 0) + Cardinality(Released({"putc"})) + Cardinality(tyofull)
       = TY_OBUFLEN + odebt
  /\ odebt = 0 => tyofull = {(tyohead + i) % TY_OBUFLEN : i \in 0..(Cardinality(tyofull) - 1)}

\* Output that is not held is going to be sent: there is an interrupt to come
\* for it, unless ^S was undone by a character that did not start the
\* transmitter (ttyhandle_in.c:76, ttyputc.c:35).
NoLostKick ==
  odebt = 0 /\ ~tyoheld /\ ~unheld /\ (tyofull # {} \/ tyefill > 0) => thre
=============================================================================
