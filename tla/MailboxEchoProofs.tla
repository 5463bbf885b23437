------------------------- MODULE MailboxEchoProofs -------------------------
(***************************************************************************)
(* Proofs about MailboxEcho, for any channels, messages and reloads.       *)
(***************************************************************************)
EXTENDS MailboxEcho, TLAPS

\* A serving loop has a channel to serve.
ServingInv == mcu.pc \in {"cmd", "dat", "reply", "ring", "ack"} => mcu.todo # {}

\* What the firmware holds, or has put on the reply side, is the message of
\* the channel it is serving.
HeldInv ==
  /\ mcu.pc \in {"dat", "reply", "ring", "ack"} => mcu.cmd = linux[ch].msg
  /\ mcu.pc \in {"reply", "ring", "ack"} => mcu.dat = linux[ch].msg
  /\ mcu.pc \in {"ring", "ack"} => b2a[ch].cmd = linux[ch].msg

\* The request side of a channel carries Linux's message. While Linux is
\* between the command and the doorbell, the firmware is not at the channel
\* and no reply is pending.
RequestInv ==
  \A c \in Chans :
    /\ a2b[c].cmd = linux[c].msg
    /\ linux[c].pc # "ring" => a2b[c].dat = linux[c].msg
    /\ linux[c].pc = "ring" => /\ ~ a2b[c].status /\ ~ b2a[c].status
                               /\ c \notin mcu.todo

\* A reply announced is whole, and stays announced while Linux reads it.
AnswerInv ==
  \A c \in Chans :
    /\ b2a[c].status => b2a[c].cmd = linux[c].msg /\ b2a[c].dat = linux[c].msg
    /\ linux[c].pc = "read" => b2a[c].status /\ linux[c].got[1] = linux[c].msg

EchoInv == TypeOK /\ ServingInv /\ HeldInv /\ RequestInv /\ AnswerInv /\ ReplyIsWhole

-----------------------------------------------------------------------------
\* The loop is at one of the channels it found in the status word.
LEMMA ChannelServed ==
  ASSUME NEW S \in SUBSET Chans, S # {}
  PROVE  Min(S) \in S
<1>1. S \subseteq 0 .. 3
  BY ChansAssumption
<1>2. \E x \in S : \A y \in S : x =< y
  <2>1. CASE 0 \in S
    BY <1>1, <2>1
  <2>2. CASE 0 \notin S /\ 1 \in S
    BY <1>1, <2>2
  <2>3. CASE 0 \notin S /\ 1 \notin S /\ 2 \in S
    BY <1>1, <2>3
  <2>4. CASE 0 \notin S /\ 1 \notin S /\ 2 \notin S
    <3>1. \A y \in S : y = 3
      BY <1>1, <2>4
    <3>2. 3 \in S /\ 3 =< 3
      BY <3>1
    <3> QED
      BY <3>1, <3>2
  <2> QED
    BY <2>1, <2>2, <2>3, <2>4
<1> QED
  BY <1>2 DEF Min

\* The firmware's state, and Linux's, as sets of records.
LEMMA TypeParts ==
  TypeOK => /\ mcu.todo \in SUBSET Chans /\ mcu.cmd \in Words /\ mcu.dat \in Words
            /\ \A c \in Chans :
                 /\ a2b[c] \in Regs /\ b2a[c] \in Regs
                 /\ linux[c].msg \in Words /\ linux[c].got \in Words \X Words
BY DEF TypeOK

\* A tuple of two words with one of them replaced.
LEMMA PairUpdate ==
  ASSUME NEW g \in Words \X Words, NEW w \in Words
  PROVE  /\ [g EXCEPT ![1] = w] = <<w, g[2]>>
         /\ [g EXCEPT ![2] = w] = <<g[1], w>>
         /\ <<w, g[2]>> \in Words \X Words /\ <<g[1], w>> \in Words \X Words
OBVIOUS

\* A channel's registers with some of them written.
LEMMA RegsUpdate ==
  ASSUME NEW r \in Regs, NEW w \in Words, NEW b \in BOOLEAN
  PROVE  /\ [r EXCEPT !.cmd = w] \in Regs
         /\ [r EXCEPT !.status = b] \in Regs
         /\ [r EXCEPT !.dat = w, !.status = b] \in Regs
BY DEF Regs

\* Linux's end of a channel.
Ends == [pc : {"idle", "ring", "wait", "read"}, msg : Words, got : Words \X Words]

\* Linux's end with some of it written.
LEMMA EndUpdate ==
  ASSUME NEW e \in Ends, NEW w \in Words, NEW g \in Words \X Words
  PROVE  /\ [e EXCEPT !.pc = "ring", !.msg = w] \in Ends
         /\ [e EXCEPT !.pc = "wait"] \in Ends
         /\ [e EXCEPT !.pc = "read", !.got = g] \in Ends
         /\ [e EXCEPT !.pc = "idle", !.got = g] \in Ends
BY DEF Ends

\* One channel's registers, or Linux's end of it, replaced.
LEMMA ChanUpdate ==
  ASSUME NEW S, NEW f \in [Chans -> S], NEW c \in Chans, NEW v \in S
  PROVE  [f EXCEPT ![c] = v] \in [Chans -> S] /\ f[c] \in S
OBVIOUS

\* The types are kept by the firmware, by a reload and by Linux.
LEMMA TypeNext == TypeOK /\ ServingInv /\ [Next]_vars => TypeOK'
<1> SUFFICES ASSUME TypeOK, ServingInv, [Next]_vars PROVE TypeOK'
  OBVIOUS
<1>1. mcu.pc \in {"cmd", "dat", "reply", "ring", "ack"} => ch \in Chans
  BY TypeParts, ChannelServed DEF ServingInv, ch
<1>2. CASE Start
  BY <1>2 DEF Start, Goto, TypeOK, Words
<1>3. CASE EnableDoorbells
  BY <1>3 DEF EnableDoorbells, Goto, TypeOK
<1>4. CASE Poll
  BY <1>4 DEF Poll, TypeOK
<1>5. CASE ReadCmd
  <2>1. a2b[ch].cmd \in Words
    BY <1>1, <1>5 DEF ReadCmd, TypeOK, Regs
  <2> QED
    BY <1>5, <2>1 DEF ReadCmd, TypeOK
<1>6. CASE ReadDat
  <2>1. a2b[ch].dat \in Words
    BY <1>1, <1>6 DEF ReadDat, TypeOK, Regs
  <2> QED
    BY <1>6, <2>1 DEF ReadDat, TypeOK
<1>7. CASE ReplyCmd
  <2>1. Reply(b2a[ch], "first") \in Regs
    BY <1>1, <1>7 DEF ReplyCmd, TypeOK, Regs, Reply
  <2>2. b2a' \in [Chans -> Regs]
    BY <1>7, <2>1 DEF ReplyCmd, TypeOK
  <2>3. mcu' = [mcu EXCEPT !.pc = "ring"] /\ UNCHANGED <<a2b, inten, dbg, linux, reloads>>
    BY <1>7 DEF ReplyCmd, Goto
  <2> QED
    BY <2>2, <2>3 DEF TypeOK
<1>8. CASE ReplyDat
  <2>1. Reply(b2a[ch], "second") \in Regs
    <3>1. b2a[ch] \in Regs /\ mcu.dat \in Words
      BY <1>1, <1>8, TypeParts DEF ReplyDat
    <3>2. Reply(b2a[ch], "second") = [b2a[ch] EXCEPT !.dat = mcu.dat, !.status = TRUE]
      BY DEF Reply
    <3> QED
      BY <3>1, <3>2, RegsUpdate
  <2>2. b2a' \in [Chans -> Regs]
    BY <1>8, <2>1 DEF ReplyDat, TypeOK
  <2>3. mcu' = [mcu EXCEPT !.pc = "ack"] /\ UNCHANGED <<a2b, inten, dbg, linux, reloads>>
    BY <1>8 DEF ReplyDat, Goto
  <2> QED
    BY <2>2, <2>3 DEF TypeOK
<1>9. CASE Ack
  <2>1. a2b' \in [Chans -> Regs]
    <3>1. \A c \in Chans : a2b[c] \in Regs /\ [a2b[c] EXCEPT !.status = FALSE] \in Regs
      BY TypeParts, RegsUpdate DEF Words
    <3> QED
      BY <1>9, <3>1 DEF Ack
  <2>2. dbg' \in [state : BOOLEAN, last : Words]
    BY <1>9 DEF Ack, TypeOK
  <2>3. mcu' \in [pc : {"reset", "inten", "poll", "cmd", "dat", "reply", "ring", "ack"},
                  todo : SUBSET Chans, cmd : Words, dat : Words]
    BY <1>9 DEF Ack, TypeOK, Words
  <2>4. UNCHANGED <<b2a, inten, linux, reloads>>
    BY <1>9 DEF Ack
  <2> QED
    BY <2>1, <2>2, <2>3, <2>4 DEF TypeOK
<1>10. CASE Reload
  <2>1. reloads' \in 0 .. MaxReloads
    BY <1>10, LinuxAssumption DEF Reload, TypeOK
  <2>2. /\ mcu' = [pc |-> "reset", todo |-> {}, cmd |-> None, dat |-> None]
        /\ dbg' = [state |-> FALSE, last |-> None]
        /\ UNCHANGED <<a2b, b2a, inten, linux>>
    BY <1>10 DEF Reload
  <2> QED
    BY <2>1, <2>2 DEF TypeOK, Words
<1>a. /\ a2b \in [Chans -> Regs] /\ b2a \in [Chans -> Regs]
      /\ linux \in [Chans -> Ends]
  BY DEF TypeOK, Ends
<1>b. ASSUME UNCHANGED <<inten, mcu, dbg, reloads>>, a2b' \in [Chans -> Regs],
             b2a' \in [Chans -> Regs], linux' \in [Chans -> Ends]
      PROVE  TypeOK'
  BY <1>b DEF TypeOK, Ends
<1>11. ASSUME NEW c \in Chans, NEW m \in Msgs, SendCmd(c, m) PROVE TypeOK'
  <2>1. /\ a2b' = [a2b EXCEPT ![c] = [a2b[c] EXCEPT !.cmd = m]]
        /\ linux' = [linux EXCEPT ![c] = [linux[c] EXCEPT !.pc = "ring", !.msg = m]]
        /\ UNCHANGED <<b2a, inten, mcu, dbg, reloads>>
    BY <1>11 DEF SendCmd
  <2>2. [a2b[c] EXCEPT !.cmd = m] \in Regs
    <3>1. a2b[c] \in Regs /\ m \in Words
      BY TypeParts DEF Words
    <3> QED
      BY <3>1, RegsUpdate
  <2>3. [linux[c] EXCEPT !.pc = "ring", !.msg = m] \in Ends
    <3>1. linux[c] \in Ends /\ m \in Words /\ linux[c].got \in Words \X Words
      BY <1>a, TypeParts DEF Words
    <3> QED
      BY <3>1, EndUpdate
  <2>4. a2b' \in [Chans -> Regs] /\ linux' \in [Chans -> Ends]
    BY <1>a, <2>1, <2>2, <2>3, ChanUpdate
  <2> QED
    BY <1>a, <1>b, <2>1, <2>4
<1>12. ASSUME NEW c \in Chans, SendDat(c) PROVE TypeOK'
  <2>1. /\ a2b' = [a2b EXCEPT ![c] = [a2b[c] EXCEPT !.dat = linux[c].msg,
                                         !.status = a2b[c].status \/ c \in inten]]
        /\ linux' = [linux EXCEPT ![c] = [linux[c] EXCEPT !.pc = "wait"]]
        /\ UNCHANGED <<b2a, inten, mcu, dbg, reloads>>
    BY <1>12 DEF SendDat
  <2>2. [a2b[c] EXCEPT !.dat = linux[c].msg, !.status = a2b[c].status \/ c \in inten] \in Regs
    <3>1. /\ a2b[c] \in Regs /\ linux[c].msg \in Words
          /\ (a2b[c].status \/ c \in inten) \in BOOLEAN
      BY TypeParts
    <3> QED
      BY <3>1, RegsUpdate
  <2>3. [linux[c] EXCEPT !.pc = "wait"] \in Ends
    <3>1. linux[c] \in Ends /\ linux[c].msg \in Words /\ linux[c].got \in Words \X Words
      BY <1>a, TypeParts
    <3> QED
      BY <3>1, EndUpdate
  <2>4. a2b' \in [Chans -> Regs] /\ linux' \in [Chans -> Ends]
    BY <1>a, <2>1, <2>2, <2>3, ChanUpdate
  <2> QED
    BY <1>a, <1>b, <2>1, <2>4
<1>13. ASSUME NEW c \in Chans, TakeCmd(c) PROVE TypeOK'
  <2>1. b2a[c].cmd \in Words
    BY TypeParts DEF Regs
  <2> DEFINE g == [linux[c].got EXCEPT ![1] = b2a[c].cmd]
  <2>2. g \in Words \X Words
    BY <2>1, TypeParts, PairUpdate
  <2>3. /\ linux' = [linux EXCEPT ![c] = [linux[c] EXCEPT !.pc = "read", !.got = g]]
        /\ UNCHANGED <<a2b, b2a, inten, mcu, dbg, reloads>>
    BY <1>13 DEF TakeCmd
  <2> HIDE DEF g
  <2>4. [linux[c] EXCEPT !.pc = "read", !.got = g] \in Ends
    BY <1>a, <2>1, <2>2, EndUpdate
  <2>5. linux' \in [Chans -> Ends]
    BY <1>a, <2>3, <2>4, ChanUpdate
  <2> QED
    BY <1>a, <1>b, <2>3, <2>5
<1>14. ASSUME NEW c \in Chans, TakeDat(c) PROVE TypeOK'
  <2>1. b2a[c].dat \in Words
    BY TypeParts DEF Regs
  <2> DEFINE g == [linux[c].got EXCEPT ![2] = b2a[c].dat]
  <2>2. g \in Words \X Words
    BY <2>1, TypeParts, PairUpdate
  <2>3. /\ linux' = [linux EXCEPT ![c] = [linux[c] EXCEPT !.pc = "idle", !.got = g]]
        /\ b2a' = [b2a EXCEPT ![c] = [b2a[c] EXCEPT !.status = FALSE]]
        /\ UNCHANGED <<a2b, inten, mcu, dbg, reloads>>
    BY <1>14 DEF TakeDat
  <2> HIDE DEF g
  <2>4. [linux[c] EXCEPT !.pc = "idle", !.got = g] \in Ends
    BY <1>a, <2>1, <2>2, EndUpdate
  <2>5. [b2a[c] EXCEPT !.status = FALSE] \in Regs
    BY <2>1, TypeParts, RegsUpdate
  <2>6. linux' \in [Chans -> Ends] /\ b2a' \in [Chans -> Regs]
    BY <1>a, <2>3, <2>4, <2>5, ChanUpdate
  <2> QED
    BY <1>a, <1>b, <2>3, <2>6
<1>15. ASSUME NEW c \in Chans, DropReply(c) PROVE TypeOK'
  <2>1. /\ b2a' = [b2a EXCEPT ![c] = [b2a[c] EXCEPT !.status = FALSE]]
        /\ UNCHANGED <<a2b, inten, mcu, dbg, linux, reloads>>
    BY <1>15 DEF DropReply
  <2>2. [b2a[c] EXCEPT !.status = FALSE] \in Regs
    <3>1. b2a[c] \in Regs /\ linux[c].msg \in Words
      BY TypeParts
    <3> QED
      BY <3>1, RegsUpdate
  <2>3. b2a' \in [Chans -> Regs]
    BY <1>a, <2>1, <2>2, ChanUpdate
  <2> QED
    BY <1>a, <1>b, <2>1, <2>3
<1>16. CASE UNCHANGED vars
  BY <1>16 DEF vars, TypeOK
<1> QED
  BY <1>2, <1>3, <1>4, <1>5, <1>6, <1>7, <1>8, <1>9, <1>10, <1>11, <1>12, <1>13,
     <1>14, <1>15, <1>16 DEF Next, Firmware, Receive

-----------------------------------------------------------------------------
\* What the message of a channel depends on, beside the firmware's own state.
Frame == UNCHANGED <<a2b, b2a, linux>>

\* The firmware moving on without touching a register.
LEMMA FirmwareMoves ==
  ASSUME EchoInv, Frame,
         mcu'.pc \in {"reset", "inten", "poll", "cmd"},
         mcu'.pc = "cmd" => mcu'.todo # {},
         \A c \in mcu'.todo : c \in mcu.todo \/ a2b[c].status
  PROVE  ServingInv' /\ HeldInv' /\ RequestInv' /\ AnswerInv' /\ ReplyIsWhole'
<1>1. ServingInv' /\ HeldInv'
  BY DEF ServingInv, HeldInv
<1>2. RequestInv'
  BY DEF EchoInv, RequestInv, Frame
<1>3. AnswerInv' /\ ReplyIsWhole'
  BY DEF EchoInv, AnswerInv, ReplyIsWhole, Frame
<1> QED
  BY <1>1, <1>2, <1>3

\* The channel being served is one Linux is not in the middle of ringing.
LEMMA ServedIsQuiet ==
  ASSUME EchoInv, mcu.pc \in {"cmd", "dat", "reply", "ring", "ack"}
  PROVE  ch \in mcu.todo /\ ch \in Chans /\ linux[ch].pc # "ring"
<1>1. mcu.todo \in SUBSET Chans /\ mcu.todo # {}
  BY TypeParts DEF EchoInv, ServingInv
<1>2. ch \in mcu.todo
  BY <1>1, ChannelServed DEF ch
<1> QED
  BY <1>1, <1>2 DEF EchoInv, RequestInv

\* The firmware's steps, and a load of the firmware at any of them.
LEMMA FirmwareNext ==
  ASSUME EchoInv, Firmware \/ Reload
  PROVE  ServingInv' /\ HeldInv' /\ RequestInv' /\ AnswerInv' /\ ReplyIsWhole'
<1>1. mcu.pc \in {"cmd", "dat", "reply", "ring", "ack"} =>
        ch \in mcu.todo /\ ch \in Chans /\ linux[ch].pc # "ring"
  BY ServedIsQuiet
<1>2. CASE Start
  <2>1. mcu'.pc = "inten" /\ mcu'.todo = mcu.todo /\ Frame
    BY <1>2 DEF Start, Goto, Frame, EchoInv, TypeOK
  <2> QED
    BY <2>1, FirmwareMoves
<1>3. CASE EnableDoorbells
  <2>1. mcu'.pc = "poll" /\ mcu'.todo = mcu.todo /\ Frame
    BY <1>3 DEF EnableDoorbells, Goto, Frame, EchoInv, TypeOK
  <2> QED
    BY <2>1, FirmwareMoves
<1>4. CASE Poll
  <2>1. mcu'.pc = "cmd" /\ mcu'.todo = {c \in Chans : a2b[c].status} /\ Frame
    BY <1>4 DEF Poll, Frame, EchoInv, TypeOK
  <2>2. mcu'.todo # {}
    BY <1>4, <2>1 DEF Poll
  <2> QED
    BY <2>1, <2>2, FirmwareMoves
<1>5. CASE Reload
  <2>1. mcu'.pc = "reset" /\ mcu'.todo = {} /\ Frame
    BY <1>5 DEF Reload, Frame
  <2> QED
    BY <2>1, FirmwareMoves
<1>6. CASE ReadCmd
  <2>1. /\ mcu.pc = "cmd" /\ mcu'.pc = "dat" /\ mcu'.todo = mcu.todo
        /\ mcu'.cmd = a2b[ch].cmd /\ Frame
    BY <1>6 DEF ReadCmd, Frame, EchoInv, TypeOK
  <2>2. ch' = ch
    BY <2>1 DEF ch
  <2>3. a2b[ch].cmd = linux[ch].msg
    BY <1>1, <2>1 DEF EchoInv, RequestInv
  <2>4. ServingInv' /\ HeldInv'
    BY <1>1, <2>1, <2>2, <2>3 DEF ServingInv, HeldInv, Frame
  <2>5. RequestInv' /\ AnswerInv' /\ ReplyIsWhole'
    BY <2>1 DEF EchoInv, RequestInv, AnswerInv, ReplyIsWhole, Frame
  <2> QED
    BY <2>4, <2>5
<1>7. CASE ReadDat
  <2>1. /\ mcu.pc = "dat" /\ mcu'.pc = "reply" /\ mcu'.todo = mcu.todo
        /\ mcu'.cmd = mcu.cmd /\ mcu'.dat = a2b[ch].dat /\ Frame
    BY <1>7 DEF ReadDat, Frame, EchoInv, TypeOK
  <2>2. ch' = ch
    BY <2>1 DEF ch
  <2>3. a2b[ch].dat = linux[ch].msg /\ mcu.cmd = linux[ch].msg
    BY <1>1, <2>1 DEF EchoInv, RequestInv, HeldInv
  <2>4. ServingInv' /\ HeldInv'
    BY <1>1, <2>1, <2>2, <2>3 DEF ServingInv, HeldInv, Frame
  <2>5. RequestInv' /\ AnswerInv' /\ ReplyIsWhole'
    BY <2>1 DEF EchoInv, RequestInv, AnswerInv, ReplyIsWhole, Frame
  <2> QED
    BY <2>4, <2>5
<1>8. CASE ReplyCmd
  <2>1. /\ mcu.pc = "reply" /\ mcu'.pc = "ring" /\ mcu'.todo = mcu.todo
        /\ mcu'.cmd = mcu.cmd /\ mcu'.dat = mcu.dat
        /\ UNCHANGED <<a2b, linux>>
    BY <1>8 DEF ReplyCmd, Goto, EchoInv, TypeOK
  <2>2. ch' = ch
    BY <2>1 DEF ch
  <2>3. mcu.cmd = linux[ch].msg /\ mcu.dat = linux[ch].msg
    BY <2>1 DEF EchoInv, HeldInv
  <2>4. /\ b2a' = [b2a EXCEPT ![ch] = [@ EXCEPT !.cmd = mcu.cmd]]
    BY <1>8 DEF ReplyCmd, Reply
  <2>5. /\ b2a'[ch].cmd = mcu.cmd
        /\ b2a'[ch].dat = b2a[ch].dat /\ b2a'[ch].status = b2a[ch].status
        /\ \A c \in Chans \ {ch} : b2a'[c] = b2a[c]
    BY <1>1, <2>1, <2>4 DEF EchoInv, TypeOK, Regs
  <2>6. ServingInv' /\ HeldInv'
    BY <1>1, <2>1, <2>2, <2>3, <2>5 DEF ServingInv, HeldInv
  <2>7. RequestInv'
    BY <1>1, <2>1, <2>5 DEF EchoInv, RequestInv
  <2>8. AnswerInv' /\ ReplyIsWhole'
    BY <1>1, <2>1, <2>3, <2>5 DEF EchoInv, AnswerInv, ReplyIsWhole
  <2> QED
    BY <2>6, <2>7, <2>8
<1>9. CASE ReplyDat
  <2>1. /\ mcu.pc = "ring" /\ mcu'.pc = "ack" /\ mcu'.todo = mcu.todo
        /\ mcu'.cmd = mcu.cmd /\ mcu'.dat = mcu.dat
        /\ UNCHANGED <<a2b, linux>>
    BY <1>9 DEF ReplyDat, Goto, EchoInv, TypeOK
  <2>2. ch' = ch
    BY <2>1 DEF ch
  <2>3. mcu.cmd = linux[ch].msg /\ mcu.dat = linux[ch].msg /\ b2a[ch].cmd = linux[ch].msg
    BY <2>1 DEF EchoInv, HeldInv
  <2>4. /\ b2a' = [b2a EXCEPT ![ch] = [@ EXCEPT !.dat = mcu.dat, !.status = TRUE]]
    BY <1>9 DEF ReplyDat, Reply
  <2>5. /\ b2a'[ch].cmd = b2a[ch].cmd
        /\ b2a'[ch].dat = mcu.dat /\ b2a'[ch].status
        /\ \A c \in Chans \ {ch} : b2a'[c] = b2a[c]
    BY <1>1, <2>1, <2>4 DEF EchoInv, TypeOK, Regs
  <2>6. ServingInv' /\ HeldInv'
    BY <1>1, <2>1, <2>2, <2>3, <2>5 DEF ServingInv, HeldInv
  <2>7. RequestInv'
    BY <1>1, <2>1, <2>5 DEF EchoInv, RequestInv
  <2>8. AnswerInv' /\ ReplyIsWhole'
    BY <1>1, <2>1, <2>3, <2>5 DEF EchoInv, AnswerInv, ReplyIsWhole
  <2> QED
    BY <2>6, <2>7, <2>8
<1>10. CASE Ack
  <2>1. /\ mcu.pc = "ack" /\ UNCHANGED <<b2a, linux>>
        /\ mcu'.pc = IF mcu.todo = {ch} THEN "poll" ELSE "cmd"
        /\ mcu'.todo = mcu.todo \ {ch}
    BY <1>10 DEF Ack
  <2>2. \A c \in Chans : /\ a2b'[c].cmd = a2b[c].cmd /\ a2b'[c].dat = a2b[c].dat
                         /\ a2b'[c].status => a2b[c].status
    BY <1>10 DEF Ack, EchoInv, TypeOK, Regs
  <2>3. ServingInv' /\ HeldInv'
    BY <1>1, <2>1 DEF ServingInv, HeldInv
  <2>4. RequestInv'
    BY <2>1, <2>2 DEF EchoInv, RequestInv
  <2>5. AnswerInv' /\ ReplyIsWhole'
    BY <2>1 DEF EchoInv, AnswerInv, ReplyIsWhole
  <2> QED
    BY <2>3, <2>4, <2>5
<1> QED
  BY <1>2, <1>3, <1>4, <1>5, <1>6, <1>7, <1>8, <1>9, <1>10 DEF Firmware

\* Linux's steps on a channel, when it sends only on a quiet one.
LEMMA LinuxNext ==
  ASSUME Patient, EchoInv, NEW c \in Chans,
         (\E m \in Msgs : SendCmd(c, m)) \/ SendDat(c) \/ Receive(c)
  PROVE  ServingInv' /\ HeldInv' /\ RequestInv' /\ AnswerInv' /\ ReplyIsWhole'
<1>1. mcu.pc \in {"cmd", "dat", "reply", "ring", "ack"} =>
        ch \in mcu.todo /\ ch \in Chans /\ linux[ch].pc # "ring"
  BY ServedIsQuiet
<1>2. mcu' = mcu /\ ch' = ch
  BY DEF SendCmd, SendDat, Receive, TakeCmd, TakeDat, DropReply, ch
<1>3. ServingInv'
  BY <1>2 DEF EchoInv, ServingInv
<1>4. ASSUME NEW m \in Msgs, SendCmd(c, m)
      PROVE  HeldInv' /\ RequestInv' /\ AnswerInv' /\ ReplyIsWhole'
  <2>1. ~ a2b[c].status /\ ~ b2a[c].status /\ c \notin mcu.todo /\ b2a' = b2a
    BY <1>4 DEF SendCmd, MaySend
  <2>2. /\ a2b'[c].cmd = m /\ a2b'[c].dat = a2b[c].dat
        /\ a2b'[c].status = a2b[c].status
        /\ \A d \in Chans \ {c} : a2b'[d] = a2b[d]
    <3>1. a2b' = [a2b EXCEPT ![c] = [@ EXCEPT !.cmd = m]]
      BY <1>4 DEF SendCmd
    <3> QED
      BY <3>1 DEF EchoInv, TypeOK, Regs
  <2>3. /\ linux'[c].pc = "ring" /\ linux'[c].msg = m
        /\ \A d \in Chans \ {c} : linux'[d] = linux[d]
    BY <1>4 DEF SendCmd, EchoInv, TypeOK
  <2>4. HeldInv'
    BY <1>1, <1>2, <2>1, <2>3 DEF EchoInv, HeldInv
  <2>5. RequestInv'
    BY <1>2, <2>1, <2>2, <2>3 DEF EchoInv, RequestInv
  <2>6. AnswerInv' /\ ReplyIsWhole'
    BY <2>1, <2>3 DEF EchoInv, AnswerInv, ReplyIsWhole
  <2> QED
    BY <2>4, <2>5, <2>6
<1>5. CASE SendDat(c)
  <2>1. linux[c].pc = "ring" /\ b2a' = b2a
    BY <1>5 DEF SendDat
  <2>2. /\ a2b'[c].cmd = a2b[c].cmd /\ a2b'[c].dat = linux[c].msg
        /\ \A d \in Chans \ {c} : a2b'[d] = a2b[d]
    BY <1>5 DEF SendDat, EchoInv, TypeOK, Regs
  <2>3. /\ linux'[c].pc = "wait" /\ linux'[c].msg = linux[c].msg
        /\ \A d \in Chans \ {c} : linux'[d] = linux[d]
    BY <1>5 DEF SendDat, EchoInv, TypeOK
  <2>4. HeldInv'
    BY <1>1, <1>2, <2>1, <2>3 DEF EchoInv, HeldInv
  <2>5. RequestInv'
    BY <1>2, <2>1, <2>2, <2>3 DEF EchoInv, RequestInv
  <2>6. AnswerInv' /\ ReplyIsWhole'
    BY <2>1, <2>3 DEF EchoInv, AnswerInv, ReplyIsWhole
  <2> QED
    BY <1>3, <2>4, <2>5, <2>6
<1>6. CASE TakeCmd(c)
  <2>1. linux[c].pc = "wait" /\ b2a[c].status /\ b2a' = b2a /\ a2b' = a2b
    BY <1>6 DEF TakeCmd
  <2>2. b2a[c].cmd = linux[c].msg
    BY <2>1 DEF EchoInv, AnswerInv
  <2>3. /\ linux'[c].pc = "read" /\ linux'[c].msg = linux[c].msg
        /\ linux'[c].got = [linux[c].got EXCEPT ![1] = b2a[c].cmd]
        /\ \A d \in Chans \ {c} : linux'[d] = linux[d]
    BY <1>6 DEF TakeCmd, EchoInv, TypeOK
  <2>4. linux'[c].got[1] = linux[c].msg
    BY <2>2, <2>3, PairUpdate, TypeParts DEF EchoInv
  <2>5. HeldInv'
    BY <1>1, <1>2, <2>1, <2>3 DEF EchoInv, HeldInv
  <2>6. RequestInv'
    BY <1>2, <2>1, <2>3 DEF EchoInv, RequestInv
  <2>7. AnswerInv'
    <3> SUFFICES ASSUME NEW d \in Chans
                 PROVE  /\ b2a[d].status =>
                            b2a[d].cmd = linux'[d].msg /\ b2a[d].dat = linux'[d].msg
                        /\ linux'[d].pc = "read" =>
                            b2a[d].status /\ linux'[d].got[1] = linux'[d].msg
      BY <2>1 DEF AnswerInv
    <3>1. CASE d = c
      BY <2>1, <2>3, <2>4, <3>1 DEF EchoInv, AnswerInv
    <3>2. CASE d # c
      BY <2>3, <3>2 DEF EchoInv, AnswerInv
    <3> QED
      BY <3>1, <3>2
  <2>8. ReplyIsWhole'
    BY <2>3 DEF EchoInv, ReplyIsWhole
  <2> QED
    BY <1>3, <2>5, <2>6, <2>7, <2>8
<1>7. CASE TakeDat(c)
  <2>1. linux[c].pc = "read" /\ a2b' = a2b
    BY <1>7 DEF TakeDat
  <2>2. b2a[c].dat = linux[c].msg /\ linux[c].got[1] = linux[c].msg
    BY <2>1 DEF EchoInv, AnswerInv
  <2>3. /\ linux'[c].pc = "idle" /\ linux'[c].msg = linux[c].msg
        /\ linux'[c].got = [linux[c].got EXCEPT ![2] = b2a[c].dat]
        /\ \A d \in Chans \ {c} : linux'[d] = linux[d]
    BY <1>7 DEF TakeDat, EchoInv, TypeOK
  <2>4. linux'[c].got = <<linux[c].msg, linux[c].msg>>
    BY <2>2, <2>3, PairUpdate, TypeParts DEF EchoInv
  <2>5. /\ b2a'[c].cmd = b2a[c].cmd /\ ~ b2a'[c].status
        /\ \A d \in Chans \ {c} : b2a'[d] = b2a[d]
    BY <1>7 DEF TakeDat, EchoInv, TypeOK, Regs
  <2>6. HeldInv'
    BY <1>1, <1>2, <2>1, <2>3, <2>5 DEF EchoInv, HeldInv
  <2>7. RequestInv'
    BY <1>2, <2>1, <2>3, <2>5 DEF EchoInv, RequestInv
  <2>8. AnswerInv'
    BY <2>3, <2>5 DEF EchoInv, AnswerInv
  <2>9. ReplyIsWhole'
    BY <2>3, <2>4 DEF EchoInv, ReplyIsWhole
  <2> QED
    BY <1>3, <2>6, <2>7, <2>8, <2>9
<1>8. CASE DropReply(c)
  <2>1. linux[c].pc = "idle" /\ a2b' = a2b /\ linux' = linux
    BY <1>8 DEF DropReply
  <2>2. /\ b2a'[c].cmd = b2a[c].cmd /\ ~ b2a'[c].status
        /\ \A d \in Chans \ {c} : b2a'[d] = b2a[d]
    BY <1>8 DEF DropReply, EchoInv, TypeOK, Regs
  <2>3. HeldInv'
    BY <1>1, <1>2, <2>1, <2>2 DEF EchoInv, HeldInv
  <2>4. RequestInv'
    BY <1>2, <2>1, <2>2 DEF EchoInv, RequestInv
  <2>5. AnswerInv' /\ ReplyIsWhole'
    BY <2>1, <2>2 DEF EchoInv, AnswerInv, ReplyIsWhole
  <2> QED
    BY <1>3, <2>3, <2>4, <2>5
<1> QED
  BY <1>3, <1>4, <1>5, <1>6, <1>7, <1>8 DEF Receive

\* The invariant holds at power-on ...
LEMMA EchoInit == Init => EchoInv
<1> SUFFICES ASSUME Init PROVE EchoInv
  OBVIOUS
<1>1. None \in Words
  BY DEF Words
<1>2. 0 \in 0 .. MaxReloads
  BY LinuxAssumption
<1>3. TypeOK
  BY <1>1, <1>2 DEF Init, TypeOK, Regs
<1>4. ServingInv /\ HeldInv
  BY DEF Init, ServingInv, HeldInv
<1>5. RequestInv /\ AnswerInv /\ ReplyIsWhole
  BY DEF Init, RequestInv, AnswerInv, ReplyIsWhole
<1> QED
  BY <1>3, <1>4, <1>5 DEF EchoInv

\* ... and is kept by every step.
LEMMA EchoNext == Patient /\ EchoInv /\ [Next]_vars => EchoInv'
<1> SUFFICES ASSUME Patient, EchoInv, [Next]_vars PROVE EchoInv'
  OBVIOUS
<1>1. TypeOK'
  BY TypeNext DEF EchoInv
<1>2. CASE Firmware \/ Reload
  BY <1>1, <1>2, FirmwareNext DEF EchoInv
<1>3. CASE \E c \in Chans : (\E m \in Msgs : SendCmd(c, m)) \/ SendDat(c) \/ Receive(c)
  BY <1>1, <1>3, LinuxNext DEF EchoInv
<1>4. CASE UNCHANGED vars
  <2>1. ServingInv' /\ HeldInv'
    BY <1>4 DEF vars, EchoInv, ServingInv, HeldInv, ch
  <2>2. RequestInv' /\ AnswerInv' /\ ReplyIsWhole'
    BY <1>4 DEF vars, EchoInv, RequestInv, AnswerInv, ReplyIsWhole
  <2> QED
    BY <1>1, <2>1, <2>2 DEF EchoInv
<1> QED
  BY <1>2, <1>3, <1>4 DEF Next

-----------------------------------------------------------------------------
\* Types, whoever sends: the firmware always has a channel to serve when its
\* loop body runs (main's scan of A2B_STATUS).
THEOREM TypeCorrect == Spec => [](TypeOK /\ ServingInv)
<1>1. Init => TypeOK /\ ServingInv
  BY EchoInit DEF EchoInv
<1>2. TypeOK /\ ServingInv /\ [Next]_vars => (TypeOK /\ ServingInv)'
  <2> SUFFICES ASSUME TypeOK, ServingInv, [Next]_vars PROVE ServingInv'
    BY TypeNext
  <2>1. CASE Poll
    <3>1. mcu'.todo = {c \in Chans : a2b[c].status}
      BY <2>1 DEF Poll, TypeOK
    <3> QED
      BY <2>1, <3>1 DEF Poll, ServingInv
  <2>2. CASE Ack
    <3>1. mcu.todo # {} /\ mcu.todo \in SUBSET Chans
      BY <2>2, TypeParts DEF Ack, ServingInv
    <3>2. ch \in mcu.todo
      BY <3>1, ChannelServed DEF ch
    <3>3. /\ mcu'.pc = IF mcu.todo = {ch} THEN "poll" ELSE "cmd"
          /\ mcu'.todo = mcu.todo \ {ch}
      BY <2>2 DEF Ack
    <3> QED
      BY <3>1, <3>2, <3>3 DEF ServingInv
  <2>3. CASE ReadCmd \/ ReadDat \/ ReplyCmd \/ ReplyDat
    <3>1. mcu.todo # {}
      BY <2>3 DEF ReadCmd, ReadDat, ReplyCmd, ReplyDat, ServingInv
    <3>2. mcu'.todo = mcu.todo
      <4>1. CASE ReadCmd
        BY <4>1 DEF ReadCmd, Goto, TypeOK
      <4>2. CASE ReadDat
        BY <4>2 DEF ReadDat, Goto, TypeOK
      <4>3. CASE ReplyCmd
        BY <4>3 DEF ReplyCmd, Goto, TypeOK
      <4>4. CASE ReplyDat
        BY <4>4 DEF ReplyDat, Goto, TypeOK
      <4> QED
        BY <2>3, <4>1, <4>2, <4>3, <4>4
    <3> QED
      BY <3>1, <3>2 DEF ServingInv
  <2>4. CASE Start \/ EnableDoorbells \/ Reload
    BY <2>4 DEF Start, EnableDoorbells, Reload, Goto, TypeOK, ServingInv
  <2>5. ASSUME NEW c \in Chans,
               (\E m \in Msgs : SendCmd(c, m)) \/ SendDat(c) \/ Receive(c)
        PROVE  ServingInv'
    BY <2>5 DEF SendCmd, SendDat, Receive, TakeCmd, TakeDat, DropReply, ServingInv
  <2>6. CASE UNCHANGED vars
    BY <2>6 DEF vars, ServingInv
  <2> QED
    BY <2>1, <2>2, <2>3, <2>4, <2>5, <2>6 DEF Next, Firmware
<1> QED
  BY <1>1, <1>2, PTL DEF Spec

\* A reply Linux reads is the pair it sent, on any channels, whatever the
\* firmware was doing when it was loaded again, when Linux sends on a quiet
\* channel (scr1-echo/main.c's loop; the scripts sleep between messages).
THEOREM ReplyWasSent == Patient => (Spec => []ReplyIsWhole)
<1> SUFFICES ASSUME Patient PROVE Spec => []ReplyIsWhole
  OBVIOUS
<1>1. EchoInv /\ [Next]_vars => EchoInv'
  BY EchoNext
<1>2. EchoInv => ReplyIsWhole
  BY DEF EchoInv
<1> QED
  BY <1>1, <1>2, EchoInit, PTL DEF Spec

=============================================================================
