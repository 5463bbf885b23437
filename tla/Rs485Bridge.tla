---------------------------- MODULE Rs485Bridge ----------------------------
(***************************************************************************)
(* The RS-485 bridge of qemu/rs485-bridge: the serial pump thread           *)
(* (pump_serial and dispatch in lib.rs), the control thread (main.rs) that  *)
(* runs handle_control_line, and the mutex-protected ModbusSlave between    *)
(* them, with the guest's polling master at the other end of the socket.    *)
(*                                                                          *)
(* The wire carries pieces of requests: `sock` is what the master wrote and *)
(* the pump has not read, `buf` what the pump has accumulated.  Only a      *)
(* buffer that is one request, whole or in its two pieces, is a sound       *)
(* frame, and, for the requests whose CRC ends in a zero byte, the request  *)
(* less that byte (module Crc16) unless three bytes are left of it, as of a *)
(* Report Slave ID.  Whoever holds the mutex runs to its release, so a      *)
(* locked section is one step.                                              *)
(*                                                                          *)
(* Time is relative: `wait` since the pump entered read or sleep, `lag`     *)
(* since it became runnable, `age` since the master finished its request.   *)
(***************************************************************************)
EXTENDS Integers, Sequences, FiniteSetsExt

CONSTANTS
  NRegs, NBits, BITS, MAX_READ_REGS, MAX_READ_BITS, MAX_WRITE_REGS,
  MAX_WRITE_BITS, COIL_ON,       \* as in ModbusSlave
  Asks,         \* the frames the master sends
  Commands,     \* the control lines the harness sends
  MAX_PENDING,  \* pieces the pump accumulates without a gap
  GAP,          \* the inter-frame gap
  STALL,        \* a loaded host runs a runnable pump within this time
  TIMEOUT,      \* the master's response timeout
  ZeroEnded,    \* the requests (by number) whose CRC ends in a zero byte
  MaxRequests,  \* bound on the requests sent
  MaxNoise      \* bound on the pieces of noise

ASSUME BridgeAssumption ==
  /\ MAX_PENDING \in Nat /\ GAP \in Nat \ {0} /\ STALL \in Nat \ {0}
  /\ MaxRequests \in Nat /\ MaxNoise \in Nat
  /\ NRegs \in Nat /\ NBits \in Nat /\ 2^BITS \in Nat \ {0}

\* "the guest master's response timeout is orders of magnitude larger"
\* (lib.rs:23-25) than the gap: a sleep or a gap already under way, a gap after
\* the request, and the steps of the pump in between fit in it.
ASSUME TimeoutAssumption == TIMEOUT \in Nat /\ TIMEOUT > 2 * GAP + 6 * STALL

\* The words and bytes of a request are numbers.
ASSUME AskAssumption ==
  \A f \in Asks : /\ f.pdu.a \in Nat /\ f.pdu.b \in Nat
                  /\ f.pdu.form = "counted" => f.pdu.data \in Seq(Nat)

\* The lines handle_control_line acts on, with the arguments it parsed; it
\* answers `err` to any other.
ASSUME CommandAssumption ==
  \A c \in Commands :
    /\ c.cmd \in {"drop", "exception", "clear", "set", "get"}
    /\ c.cmd \in {"drop", "exception"} => c.n \in Nat
    /\ c.cmd \in {"set", "get"} =>
         c.addr \in Nat /\ c.bank \in {"holding", "input", "coils", "discrete"}
    /\ c.cmd = "set" =>
         c.val \in IF c.bank \in {"holding", "input"} THEN Nat ELSE BOOLEAN

VARIABLES
  slave, poisoned,              \* Bus: the slave and its mutex
  sock, buf, pc, reply,         \* pump_serial and dispatch
  wait, lag,
  back, open,                   \* the socket towards the master
  master, asked, requests, age, noise,
  accepted,     \* history: the last answer the master took
  held,         \* history: what the registers held since the request was sent
  applied,      \* history: how often each request was served
  met           \* history: the newest request the pump has disposed of

pumpvars   == <<sock, buf, pc, reply>>
busvars    == <<slave, poisoned>>
mastervars == <<master, asked, requests, age, noise, accepted>>
history    == <<held, applied, met>>
vars == <<busvars, pumpvars, wait, lag, back, open, mastervars, history>>

Slave == INSTANCE ModbusSlave WITH
  Requests <- Asks, Seeds <- {0}, SeedAddrs <- {0}, Ids <- {}, Drops <- {}, Codes <- {},
  dev <- slave, last <- reply

Silence  == Slave!Silence
Cells    == [holding |-> slave.holding, input |-> slave.input]
NoAnswer == [asked |-> 0, answers |-> 0, genuine |-> TRUE]

Noise        == [id |-> 0, part |-> "noise"]
Piece(n, p)  == [id |-> n, part |-> p]

-----------------------------------------------------------------------------
(* What a buffer is to handle_frame *)

\* The request a buffer holds whole, or 0.
WholeIn(b) ==
  IF \/ Len(b) = 1 /\ b[1].part = "whole"
     \/ Len(b) = 2 /\ b[1].part = "head" /\ b[2] = Piece(b[1].id, "tail")
  THEN b[1].id ELSE 0

FrameIn(b) ==
  IF WholeIn(b) # 0 THEN requests[WholeIn(b)]
  ELSE [kind  |-> "frame", to |-> "me",
        sound |-> /\ Len(b) = 1 /\ b[1].part = "head" /\ b[1].id \in ZeroEnded
                  /\ requests[b[1].id].fc # 17,
        fc    |-> IF b[1].id = 0 THEN 0 ELSE requests[b[1].id].fc,
        pdu   |-> [form |-> "short", a |-> 0, b |-> 0]]

-----------------------------------------------------------------------------
(* pump_serial *)

Newest(b) == Max({b[i].id : i \in DOMAIN b} \cup {met})

Runnable ==
  \/ pc \in {"dispatch", "final", "write", "last write"}
  \/ pc = "read" /\ (sock # <<>> \/ ~open \/ wait >= GAP)
  \/ pc = "sleep" /\ wait >= GAP

Ran == lag' = 0 /\ wait' = 0

\* Ok(n): up to a chunk of what is there; past the cap everything is dropped
\* and the pump backs off for one gap.
ReadBytes ==
  /\ pc = "read" /\ sock # <<>>
  /\ \E n \in 1 .. Len(sock) :
       LET got == buf \o SubSeq(sock, 1, n) IN
       /\ sock' = SubSeq(sock, n + 1, Len(sock))
       /\ IF Len(got) > MAX_PENDING
          THEN buf' = <<>> /\ pc' = "sleep" /\ met' = Newest(got)
          ELSE buf' = got /\ UNCHANGED <<pc, met>>
  /\ Ran
  /\ UNCHANGED <<busvars, reply, back, open, mastervars, held, applied>>

WakeUp ==
  /\ pc = "sleep" /\ wait >= GAP
  /\ pc' = "read"
  /\ Ran
  /\ UNCHANGED <<busvars, sock, buf, reply, back, open, mastervars, history>>

\* WouldBlock or TimedOut: a gap of silence ends the frame.
ReadTimeout ==
  /\ pc = "read" /\ sock = <<>> /\ open /\ wait >= GAP
  /\ pc' = IF buf = <<>> THEN "read" ELSE "dispatch"
  /\ Ran
  /\ UNCHANGED <<busvars, sock, buf, reply, back, open, mastervars, history>>

\* MUTANT of ReadEof: pending bytes are dropped with the connection.
ReadEofDrops ==
  /\ pc = "read" /\ sock = <<>> /\ ~open
  /\ pc' = "eof" /\ buf' = <<>>
  /\ Ran
  /\ UNCHANGED <<busvars, sock, reply, back, open, mastervars, history>>

\* MUTANT of ReadEof: a closed socket is taken for a silent one.
ReadEofIgnored ==
  /\ pc = "read" /\ sock = <<>> /\ ~open
  /\ pc' = IF buf = <<>> THEN "read" ELSE "dispatch"
  /\ Ran
  /\ UNCHANGED <<busvars, sock, buf, reply, back, open, mastervars, history>>

\* Ok(0): what is pending is dispatched, and the pump returns.
ReadEof ==
  /\ pc = "read" /\ sock = <<>> /\ ~open
  /\ pc' = IF buf = <<>> THEN "eof" ELSE "final"
  /\ Ran
  /\ UNCHANGED <<busvars, sock, buf, reply, back, open, mastervars, history>>

\* Any other error, as of a VM that went away with replies unread: the pump
\* returns Err, and what is pending is lost with it.
ReadError ==
  /\ pc = "read" /\ ~open
  /\ pc' = "fatal"
  /\ Ran
  /\ UNCHANGED <<busvars, sock, buf, reply, back, open, mastervars, history>>

\* Back in the loop after a dispatch, or out of it after the one at EOF.
Resume == IF pc \in {"final", "last write"} THEN "eof" ELSE "read"
ToWrite == IF pc = "final" THEN "last write" ELSE "write"

\* The request a dispatch of b serves, if its reply is r.
Served(b, r) == IF r = Silence \/ WholeIn(b) = 0 THEN applied
                ELSE [applied EXCEPT ![WholeIn(b)] = @ + 1]

\* MUTANT of Dispatch: the buffer is not cleared.
DispatchKeepsBuf ==
  LET h == Slave!Handle(slave, FrameIn(buf)) IN
  /\ pc \in {"dispatch", "final"}
  /\ IF poisoned THEN pc' = "fatal" /\ UNCHANGED <<slave, buf, reply, applied>>
     ELSE /\ slave' = h.dev
          /\ UNCHANGED buf
          /\ reply' = [frame |-> h.reply, id |-> buf[1].id]
          /\ pc' = IF h.reply = Silence THEN Resume ELSE ToWrite
          /\ applied' = Served(buf, h.reply)
  /\ held' = held \cup {Cells'} /\ met' = Newest(buf)
  /\ Ran
  /\ UNCHANGED <<poisoned, sock, back, open, mastervars>>

\* MUTANT of Dispatch: silence leaves the last reply in place to be written.
DispatchKeepsReply ==
  LET h == Slave!Handle(slave, FrameIn(buf)) IN
  /\ pc \in {"dispatch", "final"}
  /\ IF poisoned THEN pc' = "fatal" /\ UNCHANGED <<slave, buf, reply, applied>>
     ELSE /\ slave' = h.dev
          /\ buf' = <<>>
          /\ reply' = IF h.reply = Silence THEN reply
                      ELSE [frame |-> h.reply, id |-> buf[1].id]
          /\ pc' = IF reply'.frame = Silence THEN Resume ELSE ToWrite
          /\ applied' = Served(buf, h.reply)
  /\ held' = held \cup {Cells'} /\ met' = Newest(buf)
  /\ Ran
  /\ UNCHANGED <<poisoned, sock, back, open, mastervars>>

\* dispatch, up to the write: lock (a poisoned mutex panics), handle_frame,
\* clear the buffer.
Dispatch ==
  LET h == Slave!Handle(slave, FrameIn(buf)) IN
  /\ pc \in {"dispatch", "final"}
  /\ IF poisoned THEN pc' = "fatal" /\ UNCHANGED <<slave, buf, reply, applied>>
     ELSE /\ slave' = h.dev
          /\ buf' = <<>>
          /\ reply' = [frame |-> h.reply, id |-> buf[1].id]
          /\ pc' = IF h.reply = Silence THEN Resume ELSE ToWrite
          /\ applied' = Served(buf, h.reply)
  /\ held' = held \cup {Cells'} /\ met' = Newest(buf)
  /\ Ran
  /\ UNCHANGED <<poisoned, sock, back, open, mastervars>>

\* dispatch, write_all: a VM that is gone fails it, and the pump returns Err.
WriteReply ==
  /\ pc \in {"write", "last write"}
  /\ IF open THEN back' = Append(back, reply) /\ pc' = Resume
             ELSE pc' = "fatal" /\ UNCHANGED back
  /\ Ran
  /\ UNCHANGED <<busvars, sock, buf, reply, open, mastervars, history>>

Pump == \/ ReadBytes \/ WakeUp \/ ReadTimeout \/ ReadEof \/ ReadError
        \/ Dispatch \/ WriteReply

-----------------------------------------------------------------------------
(* The control thread: handle_control_line, one line under the mutex *)

\* MUTANT of BoundOf: every address is checked against the bit bound.
BoundOfBits(bank) == NBits

BoundOf(bank) == IF bank \in {"holding", "input"} THEN NRegs ELSE NBits

SizeOf(bank) == IF bank \in {"holding", "input"} THEN NRegs ELSE NBits

Control(c) ==
  /\ ~poisoned
  /\ CASE c.cmd = "drop" ->
            slave' = [slave EXCEPT !.drop_next = c.n] /\ UNCHANGED poisoned
       [] c.cmd = "exception" ->
            slave' = [slave EXCEPT !.force_exception = c.n] /\ UNCHANGED poisoned
       [] c.cmd = "clear" ->
            /\ slave' = [slave EXCEPT !.drop_next = 0, !.force_exception = Slave!None]
            /\ UNCHANGED poisoned
       [] c.cmd \in {"set", "get"} ->
            IF c.addr >= BoundOf(c.bank) THEN UNCHANGED <<slave, poisoned>>
            ELSE IF c.addr >= SizeOf(c.bank)   \* the index panics, lock held
            THEN poisoned' = TRUE /\ UNCHANGED slave
            ELSE /\ slave' = IF c.cmd = "get" THEN slave
                             ELSE [slave EXCEPT ![c.bank][c.addr] = c.val]
                 /\ UNCHANGED poisoned
  /\ held' = held \cup {Cells'}
  /\ UNCHANGED <<pumpvars, wait, lag, back, open, mastervars, applied, met>>

-----------------------------------------------------------------------------
(* The master (external): one request at a time, an answer or a timeout *)

Next1 == Len(requests) + 1

Begin(f, part, state) ==
  /\ open /\ master = "idle" /\ Next1 <= MaxRequests
  /\ requests' = Append(requests, f)
  /\ sock' = Append(sock, Piece(Next1, part))
  /\ asked' = Next1 /\ master' = state /\ age' = 0
  /\ held' = {Cells}
  /\ UNCHANGED <<busvars, buf, pc, reply, wait, lag, back, open, noise, accepted,
                 applied, met>>

Send(f)     == Begin(f, "whole", "waiting")
SendHead(f) == Begin(f, "head", "sending")

SendTail ==
  /\ open /\ master = "sending"
  /\ sock' = Append(sock, Piece(asked, "tail"))
  /\ master' = "waiting" /\ age' = 0
  /\ UNCHANGED <<busvars, buf, pc, reply, wait, lag, back, open, asked, requests,
                 noise, accepted, history>>

LineNoise ==
  /\ open /\ noise < MaxNoise
  /\ noise' = noise + 1
  /\ sock' = Append(sock, Noise)
  /\ UNCHANGED <<busvars, buf, pc, reply, wait, lag, back, open, master, asked,
                 requests, age, accepted, history>>

\* What registers p.a and on held, at one moment since the request was sent.
Values(cells, p) == [i \in 1 .. p.b |-> cells[p.a + i - 1]]

\* Whether the reply to request n is one n may get: a refusal, or the answer
\* to a request that was served, with values its registers held together.
Genuine(n, r) ==
  LET p == requests[n].pdu IN
  /\ r.fc = requests[n].fc
  /\ \/ r.exception
     \/ /\ applied[n] = 1
        /\ r.fc \in {3, 4} =>
             \E h \in held :
               Slave!RegsIn(Tail(r.data), p.b) = Values(h[Slave!BankOf(r.fc)], p)

Receive ==
  /\ open /\ master = "waiting" /\ back # <<>>
  /\ accepted' = [asked |-> asked, answers |-> Head(back).id,
                  genuine |-> Genuine(asked, Head(back).frame)]
  /\ back' = Tail(back)
  /\ master' = "idle" /\ age' = 0
  /\ UNCHANGED <<busvars, pumpvars, wait, lag, open, asked, requests, noise, history>>

GiveUp ==
  /\ open /\ master = "waiting" /\ back = <<>> /\ age = TIMEOUT
  /\ master' = "idle" /\ age' = 0
  /\ UNCHANGED <<busvars, pumpvars, wait, lag, back, open, asked, requests, noise,
                 accepted, history>>

\* The VM goes away.
Close ==
  /\ open
  /\ open' = FALSE
  /\ UNCHANGED <<busvars, pumpvars, wait, lag, back, mastervars, history>>

\* Time passes for everybody; a runnable pump runs within STALL, and a waiting
\* master gives up on time.
Tick ==
  /\ Runnable => lag < STALL
  /\ master = "waiting" /\ open => age < TIMEOUT
  /\ pc \notin {"eof", "fatal"}
  /\ wait' = IF wait < GAP THEN wait + 1 ELSE wait
  /\ lag' = IF Runnable THEN lag + 1 ELSE 0
  /\ age' = IF master = "waiting" /\ open THEN age + 1 ELSE age
  /\ UNCHANGED <<busvars, pumpvars, back, open, master, asked, requests, noise,
                 accepted, history>>

Init ==
  /\ slave = Slave!New /\ poisoned = FALSE
  /\ sock = <<>> /\ buf = <<>> /\ pc = "read"
  /\ reply = [frame |-> Silence, id |-> 0]
  /\ wait = 0 /\ lag = 0
  /\ back = <<>> /\ open = TRUE
  /\ master = "idle" /\ asked = 0 /\ requests = <<>> /\ age = 0 /\ noise = 0
  /\ accepted = NoAnswer /\ held = {Cells}
  /\ applied = [n \in 1 .. MaxRequests |-> 0] /\ met = 0

Next ==
  \/ Pump \/ Tick
  \/ \E c \in Commands : Control(c)
  \/ \E f \in Asks : Send(f) \/ SendHead(f)
  \/ SendTail \/ LineNoise \/ Receive \/ GiveUp \/ Close

Spec == Init /\ [][Next]_vars

\* The pump thread is scheduled, and time passes.
FairSpec == Spec /\ WF_vars(Pump) /\ WF_vars(Tick)

-----------------------------------------------------------------------------
(* Properties *)

TypeOK ==
  /\ pc \in {"read", "sleep", "dispatch", "final", "write", "last write", "eof", "fatal"}
  /\ poisoned \in BOOLEAN /\ open \in BOOLEAN
  /\ Len(buf) <= MAX_PENDING
  /\ wait \in 0 .. GAP /\ lag \in 0 .. STALL /\ age \in 0 .. TIMEOUT
  /\ master \in {"idle", "sending", "waiting"} /\ asked \in 0 .. MaxRequests

\* The answer a master takes is to the request it waits for, and registers in
\* it are what they held together while that request was out: "the failure mode
\* degrades to a dropped poll, never a phantom reply" (lib.rs:7-10), with
\* split and merged frames, noise, faults, seeds and retries in any order.
AnswerIsGenuine == accepted.asked = accepted.answers /\ accepted.genuine

\* A request is served at most once, however it was cut and retried.
ServedOnce == \A n \in 1 .. MaxRequests : applied[n] <= 1

\* "a typo in a scenario script answers `err` instead of killing the VM's
\* whole field bus" (lib.rs:32-35): only a VM that is gone ends the pump.
BusSurvives == pc = "fatal" => ~open

\* "Any pending bytes are dispatched on EOF so a final unflushed frame is not
\* lost" (lib.rs:53-55): a pump that returned at the end of the stream has
\* dispatched every request, or discarded it for its length. (A read that fails,
\* or a reply that cannot be written, ends it with what is pending.)
EofLosesNothing == pc = "eof" => sock = <<>> /\ met = Len(requests)

\* The bridge ends when the VM does (main.rs:131-135).
BridgeEnds == ~open ~> pc \in {"eof", "fatal"}
=============================================================================
