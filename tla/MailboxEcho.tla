---------------------------- MODULE MailboxEcho ---------------------------
(***************************************************************************)
(* The HPMCU's mailbox echo firmware, kernel/.../mailbox/scr1-echo/main.c: *)
(* one polling loop between the A2B and the B2A registers of the mailbox.  *)
(* The mailbox block, Linux's end of it and the script that loads the      *)
(* firmware are external.                                                  *)
(*                                                                         *)
(* A write of the DAT register is the doorbell, as mailbox/VERIFIED.md     *)
(* found on the board. A message is one value, written to CMD and to DAT,  *)
(* so that a reply put together from two messages is told apart.           *)
(***************************************************************************)
EXTENDS Naturals, FiniteSetsExt

CONSTANTS
  Chans,       \* channels in use, numbers below NUM_CHANS
  Msgs,        \* messages Linux sends
  None,        \* no message: a register not written yet
  MaxReloads,  \* how often the firmware is loaded again
  Patient      \* Linux sends when the channel is quiet (the scripts sleep 1 s)

ASSUME ChansAssumption == Chans \subseteq 0 .. 3 /\ Chans # {}
ASSUME MsgsAssumption == None \notin Msgs
ASSUME LinuxAssumption == MaxReloads \in Nat /\ Patient \in BOOLEAN

VARIABLES
  a2b, b2a,  \* the two directions: CMD, DAT and the STATUS bit of a channel
  inten,     \* A2B_INTEN: channels whose doorbell reaches the MCU
  mcu,       \* the firmware: where it is, the status bits to serve, cmd, dat
  dbg,       \* the debug words in SRAM: state and the last command
  linux,     \* per channel: what Linux is doing, its message, the reply read
  reloads    \* loads so far

vars == <<a2b, b2a, inten, mcu, dbg, linux, reloads>>

Words == Msgs \cup {None}
Regs == [cmd : Words, dat : Words, status : BOOLEAN]

\* Type correctness of the mailbox, the firmware and Linux.
TypeOK ==
  /\ a2b \in [Chans -> Regs] /\ b2a \in [Chans -> Regs]
  /\ inten \in SUBSET Chans
  /\ mcu \in [pc : {"reset", "inten", "poll", "cmd", "dat", "reply", "ring", "ack"},
              todo : SUBSET Chans, cmd : Words, dat : Words]
  /\ dbg \in [state : BOOLEAN, last : Words]
  /\ linux \in [Chans -> [pc : {"idle", "ring", "wait", "read"}, msg : Words,
                          got : Words \X Words]]
  /\ reloads \in 0 .. MaxReloads

-----------------------------------------------------------------------------
(* The firmware *)

\* The channel the loop is at: the lowest of those the status word named.
ch == Min(mcu.todo)

Goto(pc) == mcu' = [mcu EXCEPT !.pc = pc]

\* main's start: the debug words, then the doorbells of all channels.
Start ==
  /\ mcu.pc = "reset"
  /\ dbg' = [state |-> TRUE, last |-> None]
  /\ Goto("inten")
  /\ UNCHANGED <<a2b, b2a, inten, linux, reloads>>

EnableDoorbells ==
  /\ mcu.pc = "inten"
  /\ inten' = Chans
  /\ Goto("poll")
  /\ UNCHANGED <<a2b, b2a, dbg, linux, reloads>>

\* One read of A2B_STATUS, and the channels it names.
Poll ==
  /\ mcu.pc = "poll"
  /\ \E c \in Chans : a2b[c].status
  /\ mcu' = [mcu EXCEPT !.pc = "cmd", !.todo = {c \in Chans : a2b[c].status}]
  /\ UNCHANGED <<a2b, b2a, inten, dbg, linux, reloads>>

ReadCmd ==
  /\ mcu.pc = "cmd"
  /\ mcu' = [mcu EXCEPT !.pc = "dat", !.cmd = a2b[ch].cmd]
  /\ UNCHANGED <<a2b, b2a, inten, dbg, linux, reloads>>

ReadDat ==
  /\ mcu.pc = "dat"
  /\ mcu' = [mcu EXCEPT !.pc = "reply", !.dat = a2b[ch].dat]
  /\ UNCHANGED <<a2b, b2a, inten, dbg, linux, reloads>>

\* MUTANT of Reply: the data, and with it the doorbell, goes out first.
ReplySwapped(r, word) ==
  CASE word = "first"  -> [r EXCEPT !.dat = mcu.dat, !.status = TRUE]
    [] word = "second" -> [r EXCEPT !.cmd = mcu.cmd]

\* The reply: the command first, then the data, which rings Linux's doorbell.
Reply(r, word) ==
  CASE word = "first"  -> [r EXCEPT !.cmd = mcu.cmd]
    [] word = "second" -> [r EXCEPT !.dat = mcu.dat, !.status = TRUE]

ReplyCmd ==
  /\ mcu.pc = "reply"
  /\ b2a' = [b2a EXCEPT ![ch] = Reply(@, "first")]
  /\ Goto("ring")
  /\ UNCHANGED <<a2b, inten, dbg, linux, reloads>>

ReplyDat ==
  /\ mcu.pc = "ring"
  /\ b2a' = [b2a EXCEPT ![ch] = Reply(@, "second")]
  /\ Goto("ack")
  /\ UNCHANGED <<a2b, inten, dbg, linux, reloads>>

\* MUTANT of Acked: every status bit is cleared.
AckedAll == Chans

\* The status bits the acknowledgement clears: the channel's own.
Acked == {ch}

\* The acknowledgement and the debug words; then the next channel.
Ack ==
  /\ mcu.pc = "ack"
  /\ a2b' = [c \in Chans |-> IF c \in Acked THEN [a2b[c] EXCEPT !.status = FALSE]
                             ELSE a2b[c]]
  /\ dbg' = [dbg EXCEPT !.last = mcu.cmd]
  /\ mcu' = [pc |-> IF mcu.todo = {ch} THEN "poll" ELSE "cmd",
             todo |-> mcu.todo \ {ch}, cmd |-> None, dat |-> None]
  /\ UNCHANGED <<b2a, inten, linux, reloads>>

-----------------------------------------------------------------------------
(* External: load-echo-fw.sh, and Linux's end of the mailbox *)

\* The core is held, the firmware and the debug words are written anew, and
\* the core released. The mailbox keeps its registers.
Reload ==
  /\ reloads < MaxReloads
  /\ reloads' = reloads + 1
  /\ mcu' = [pc |-> "reset", todo |-> {}, cmd |-> None, dat |-> None]
  /\ dbg' = [state |-> FALSE, last |-> None]
  /\ UNCHANGED <<a2b, b2a, inten, linux>>

\* When Linux may send: the firmware announced itself, and, for a patient
\* Linux, nothing is left over on the channel and the firmware is listening.
MaySend(c) ==
  /\ dbg.state
  /\ Patient => /\ ~ a2b[c].status /\ ~ b2a[c].status
                /\ inten = Chans /\ c \notin mcu.todo

SendCmd(c, m) ==
  /\ linux[c].pc = "idle" /\ MaySend(c)
  /\ a2b' = [a2b EXCEPT ![c].cmd = m]
  /\ linux' = [linux EXCEPT ![c] = [@ EXCEPT !.pc = "ring", !.msg = m]]
  /\ UNCHANGED <<b2a, inten, mcu, dbg, reloads>>

\* The doorbell only raises the status bit of an enabled channel.
SendDat(c) ==
  /\ linux[c].pc = "ring"
  /\ a2b' = [a2b EXCEPT ![c] = [@ EXCEPT !.dat = linux[c].msg,
                                         !.status = a2b[c].status \/ c \in inten]]
  /\ linux' = [linux EXCEPT ![c].pc = "wait"]
  /\ UNCHANGED <<b2a, inten, mcu, dbg, reloads>>

\* Linux's interrupt: it reads CMD, then DAT, and clears the status bit.
TakeCmd(c) ==
  /\ linux[c].pc = "wait" /\ b2a[c].status
  /\ linux' = [linux EXCEPT ![c] = [@ EXCEPT !.pc = "read", !.got[1] = b2a[c].cmd]]
  /\ UNCHANGED <<a2b, b2a, inten, mcu, dbg, reloads>>

TakeDat(c) ==
  /\ linux[c].pc = "read"
  /\ linux' = [linux EXCEPT ![c] = [@ EXCEPT !.pc = "idle", !.got[2] = b2a[c].dat]]
  /\ b2a' = [b2a EXCEPT ![c].status = FALSE]
  /\ UNCHANGED <<a2b, inten, mcu, dbg, reloads>>

\* A reply nobody waits for (the second one, after a reload) is dropped.
DropReply(c) ==
  /\ linux[c].pc = "idle" /\ b2a[c].status
  /\ b2a' = [b2a EXCEPT ![c].status = FALSE]
  /\ UNCHANGED <<a2b, inten, mcu, dbg, linux, reloads>>

-----------------------------------------------------------------------------
Init ==
  LET empty == [c \in Chans |-> [cmd |-> None, dat |-> None, status |-> FALSE]] IN
  /\ a2b = empty /\ b2a = empty
  /\ inten = {}
  /\ mcu = [pc |-> "reset", todo |-> {}, cmd |-> None, dat |-> None]
  /\ dbg = [state |-> FALSE, last |-> None]
  /\ linux = [c \in Chans |-> [pc |-> "idle", msg |-> None, got |-> <<None, None>>]]
  /\ reloads = 0

Firmware == \/ Start \/ EnableDoorbells \/ Poll \/ ReadCmd \/ ReadDat
            \/ ReplyCmd \/ ReplyDat \/ Ack

Receive(c) == TakeCmd(c) \/ TakeDat(c) \/ DropReply(c)

Next == \/ Firmware \/ Reload
        \/ \E c \in Chans :
             \/ \E m \in Msgs : SendCmd(c, m)
             \/ SendDat(c) \/ Receive(c)

\* The firmware's loop runs, and Linux's doorbell write and interrupt follow.
Spec == /\ Init /\ [][Next]_vars
        /\ WF_vars(Firmware)
        /\ \A c \in Chans : WF_vars(SendDat(c)) /\ WF_vars(Receive(c))

-----------------------------------------------------------------------------
\* A reply Linux reads is the pair it sent, not the command of one message
\* with the data of another, whatever the firmware was doing when it was
\* loaded again.
ReplyIsWhole ==
  \A c \in Chans :
    linux[c].pc = "idle" => linux[c].got = <<linux[c].msg, linux[c].msg>>

\* Every message sent is answered: no acknowledgement takes a message the
\* firmware has not read.
MessageIsAnswered ==
  \A c \in Chans : linux[c].pc = "wait" ~> linux[c].pc = "idle"

=============================================================================
