----------------------------- MODULE SerialCla -----------------------------
(***************************************************************************)
(* The convergence-layer adapter that puts ION's LTP segments on a KISS    *)
(* TNC: one process, two threads, one serial descriptor shared by both.    *)
(* The main thread takes segments from ION and writes them; when a write   *)
(* fails it takes the shared descriptor away from the receiving thread,    *)
(* closes the port, opens it again and publishes the new descriptor.  The  *)
(* receiving thread reads bytes, undoes the KISS framing and hands every   *)
(* frame to ION.  The TNC may be unplugged and plugged in at any moment.   *)
(*                                                                         *)
(* A descriptor is closed or refers to one plugging-in of the device: a    *)
(* file opened on an earlier one is hung up (reads return nothing, writes  *)
(* fail with EIO).  Sleeps, pacing and the beacon, whose write changes     *)
(* nothing of this state, are left out.                                    *)
(***************************************************************************)
EXTENDS Integers, SequencesExt, FiniteSets

CONSTANTS
  Fds,          \* descriptors open() may return
  FirstFd,      \* the one it returns when the adapter starts
  Payloads,     \* what the frames the TNC hears carry: sequences of bytes
  MaxFrames,    \* bound: frames heard
  MaxUnplugs,   \* bound: times the TNC is unplugged
  MaxSegments,  \* bound: segments ION has to send
  MaxBuf        \* the decoder's buffer

VARIABLES
  plug, present,       \* the device: how often plugged in, is it there now
  line, spoils,        \* its unread bytes; times it lost some
  heard,               \* payloads the TNC has put on the line
  fds,                 \* descriptor -> the plugging-in it refers to, 0 closed
  tx, serial_fd,       \* main thread: where it is, its own descriptor
  g_running, ended,    \* stop asked by a signal; ION ended the span
  segment, wire,       \* segments dequeued; those written to the TNC
  shared, running,     \* RxThreadParms: serial_fd and running
  rx, fd, file,        \* receiving thread: where, its descriptor, its read
  dec, handed          \* its KISS decoder; payloads handed to ION

device  == <<plug, present, line, spoils, heard>>
main    == <<tx, serial_fd, g_running, segment, wire>>
receive == <<rx, fd, file, dec, handed>>
vars    == <<device, fds, main, ended, shared, running, receive>>

-----------------------------------------------------------------------------
(* Framing.  Header is the AX.25 header, its sixteen bytes as one.         *)

FEND  == 192
FESC  == 219
TFEND == 220
TFESC == 221
Header == 3

Bytes == {0, Header, FEND, FESC, TFEND, TFESC}
None  == -1

ASSUME SerialAssumption ==
  /\ Fds \subseteq Nat /\ FirstFd \in Fds
  /\ Payloads \subseteq Seq(Bytes)
  /\ MaxFrames \in Nat /\ MaxUnplugs \in Nat /\ MaxSegments \in Nat
  /\ MaxBuf \in Nat \ {0}

Stuffed(b) == CASE b = FEND -> <<FESC, TFEND>>
                [] b = FESC -> <<FESC, TFESC>>
                [] OTHER    -> <<b>>

KissFrame(data) == <<FEND, 0>> \o FlattenSeq([i \in DOMAIN data |-> Stuffed(data[i])])
                               \o <<FEND>>

BuildAx25(p) == <<Header>> \o p

(* A frame that is no AX.25 frame, or an empty one, goes on as it is.      *)
StripAx25(f) == IF f[1] = Header /\ Len(f) > 1 THEN Tail(f) ELSE f

NewDecoder == [buf |-> <<>>, in_frame |-> FALSE, escape |-> FALSE, out |-> <<>>]

(* Fault: the bytes of the frame that ended are kept.                      *)
FrameEndKeepsBytes(d) ==
  [NewDecoder EXCEPT !.in_frame = TRUE,
                     !.buf = d.buf,
                     !.out = IF d.in_frame /\ Len(d.buf) > 1 /\ d.buf[1] % 16 = 0
                             THEN Append(d.out, Tail(d.buf)) ELSE d.out]

(* A FEND ends what was collected; it is a frame when it carries data.     *)
FrameEnd(d) ==
  [NewDecoder EXCEPT !.in_frame = TRUE,
                     !.out = IF d.in_frame /\ Len(d.buf) > 1 /\ d.buf[1] % 16 = 0
                             THEN Append(d.out, Tail(d.buf)) ELSE d.out]

Unstuffed(b) == CASE b = TFEND -> FEND [] b = TFESC -> FESC [] OTHER -> b

(* Fault: one byte past the end of the buffer.                             *)
StoreOneMore(d, b) == IF Len(d.buf) <= MaxBuf THEN [d EXCEPT !.buf = Append(@, b)] ELSE d

Store(d, b) == IF Len(d.buf) < MaxBuf THEN [d EXCEPT !.buf = Append(@, b)] ELSE d

(* Fault: the escape only counts within one call.                          *)
DecByteNoEscape(d, b) ==
  CASE b = FEND                -> FrameEnd(d)
    [] b # FEND /\ ~d.in_frame -> d
    [] b = FESC /\ d.in_frame  -> d
    [] b \notin {FEND, FESC} /\ d.in_frame -> Store(d, b)

KissDecByte(d, b) ==
  CASE b = FEND                                -> FrameEnd(d)
    [] b # FEND /\ ~d.in_frame                 -> d
    [] b = FESC /\ d.in_frame /\ ~d.escape     -> [d EXCEPT !.escape = TRUE]
    [] b # FEND /\ d.in_frame /\ d.escape      -> Store([d EXCEPT !.escape = FALSE],
                                                        Unstuffed(b))
    [] b \notin {FEND, FESC} /\ d.in_frame /\ ~d.escape -> Store(d, b)

-----------------------------------------------------------------------------
(* What is true of the port.                                               *)

Open(f)  == f # None /\ fds[f] # 0
Alive(g) == present /\ g = plug
Tails(s) == {SubSeq(s, i, Len(s)) : i \in 1 .. Len(s) + 1}

Init ==
  /\ plug = 1 /\ present = TRUE /\ line = <<>> /\ spoils = 0 /\ heard = <<>>
  /\ serial_fd = FirstFd
  /\ fds = [f \in Fds |-> IF f = serial_fd THEN plug ELSE 0]
  /\ tx = "loop" /\ g_running = TRUE /\ ended = FALSE
  /\ segment = 0 /\ wire = <<>>
  /\ shared = serial_fd /\ running = TRUE
  /\ rx = "check" /\ fd = None /\ file = 0
  /\ dec = NewDecoder /\ handed = <<>>

-----------------------------------------------------------------------------
(* The TNC and ION.                                                        *)

Hear(p) ==
  /\ present /\ Len(heard) < MaxFrames
  /\ heard' = Append(heard, p)
  /\ line' = line \o KissFrame(BuildAx25(p))
  /\ UNCHANGED <<plug, present, spoils, fds, main, ended, shared, running, receive>>

(* What had not been read is lost, but for what the TNC still sends later. *)
Unplug ==
  /\ present /\ plug <= MaxUnplugs
  /\ present' = FALSE
  /\ line' \in Tails(line)
  /\ spoils' = spoils + 1
  /\ UNCHANGED <<plug, heard, fds, main, ended, shared, running, receive>>

Plug ==
  /\ ~present
  /\ present' = TRUE
  /\ plug' = plug + 1
  /\ UNCHANGED <<line, spoils, heard, fds, main, ended, shared, running, receive>>

EndSpan ==
  /\ ~ended
  /\ ended' = TRUE
  /\ UNCHANGED <<device, fds, main, shared, running, receive>>

(* The handler of SIGTERM and SIGINT.                                      *)
shutDown ==
  /\ g_running
  /\ g_running' = FALSE
  /\ UNCHANGED <<device, fds, tx, serial_fd, segment, wire, ended, shared, running, receive>>

-----------------------------------------------------------------------------
(* The main thread.                                                        *)

Test ==
  /\ tx = "loop"
  /\ g_running /\ ~ended
  /\ tx' = "dequeue"
  /\ UNCHANGED <<device, fds, serial_fd, g_running, segment, wire, ended, shared,
                 running, receive>>

(* Fault: the receiving thread is not told.                                *)
ShutdownSilent ==
  /\ tx = "loop"
  /\ ~g_running \/ ended
  /\ tx' = "join"
  /\ UNCHANGED <<device, fds, serial_fd, g_running, segment, wire, ended, shared,
                 running, receive>>

(* The loop is left: the receiving thread is told to stop.                 *)
Shutdown ==
  /\ tx = "loop"
  /\ ~g_running \/ ended
  /\ running' = FALSE
  /\ tx' = "join"
  /\ UNCHANGED <<device, fds, serial_fd, g_running, segment, wire, ended, shared, receive>>

Dequeue ==
  /\ tx = "dequeue" /\ segment < MaxSegments
  /\ segment' = segment + 1
  /\ tx' = "write"
  /\ UNCHANGED <<device, fds, serial_fd, g_running, wire, ended, shared, running, receive>>

(* ION answers an error once the span is ended, nothing after a signal.    *)
DequeueNothing ==
  /\ tx = "dequeue"
  /\ ended \/ ~g_running
  /\ g_running' = (g_running /\ ~ended)
  /\ tx' = "loop"
  /\ UNCHANGED <<device, fds, serial_fd, segment, wire, ended, shared, running, receive>>

Write ==
  /\ tx = "write"
  /\ IF Alive(fds[serial_fd])
       THEN wire' = Append(wire, segment) /\ tx' = "drain"
       ELSE wire' = wire /\ tx' = "mark"
  /\ UNCHANGED <<device, fds, serial_fd, g_running, segment, ended, shared, running, receive>>

Drained ==
  /\ tx = "drain"
  /\ Alive(fds[serial_fd])
  /\ tx' = "loop"
  /\ UNCHANGED <<device, fds, serial_fd, g_running, segment, wire, ended, shared,
                 running, receive>>

(* The device has gone, or a signal interrupts tcdrain.                    *)
NotDrained ==
  /\ tx = "drain"
  /\ ~Alive(fds[serial_fd]) \/ ~g_running
  /\ tx' = "mark"
  /\ UNCHANGED <<device, fds, serial_fd, g_running, segment, wire, ended, shared,
                 running, receive>>

(* Fault: the descriptor is closed while it is still published.            *)
MarkForgotten ==
  /\ tx = "mark"
  /\ tx' = "close"
  /\ UNCHANGED <<device, fds, serial_fd, g_running, segment, wire, ended, shared,
                 running, receive>>

Mark ==
  /\ tx = "mark"
  /\ shared' = None
  /\ tx' = "close"
  /\ UNCHANGED <<device, fds, serial_fd, g_running, segment, wire, ended, running, receive>>

Close ==
  /\ tx = "close"
  /\ fds' = [fds EXCEPT ![serial_fd] = 0]
  /\ tx' = "open"
  /\ UNCHANGED <<device, serial_fd, g_running, segment, wire, ended, shared, running, receive>>

(* open_serial flushes what has arrived unread.                            *)
Reopen ==
  /\ tx = "open" /\ present
  /\ \E f \in Fds :
       /\ fds[f] = 0
       /\ fds' = [fds EXCEPT ![f] = plug]
       /\ serial_fd' = f
  /\ line' \in Tails(line)
  /\ spoils' = spoils + 1
  /\ tx' = "publish"
  /\ UNCHANGED <<plug, present, heard, g_running, segment, wire, ended, shared,
                 running, receive>>

ReopenFails ==
  /\ tx = "open"
  /\ serial_fd' = None
  /\ g_running' = FALSE
  /\ tx' = "loop"
  /\ UNCHANGED <<device, fds, segment, wire, ended, shared, running, receive>>

(* Fault: the segment is written again once the port is open again.        *)
PublishAndRetry ==
  /\ tx = "publish"
  /\ shared' = serial_fd
  /\ tx' = "write"
  /\ UNCHANGED <<device, fds, serial_fd, g_running, segment, wire, ended, running, receive>>

Publish ==
  /\ tx = "publish"
  /\ shared' = serial_fd
  /\ tx' = "loop"
  /\ UNCHANGED <<device, fds, serial_fd, g_running, segment, wire, ended, running, receive>>

Join ==
  /\ tx = "join" /\ rx = "ended"
  /\ fds' = IF serial_fd = None THEN fds ELSE [fds EXCEPT ![serial_fd] = 0]
  /\ tx' = "done"
  /\ UNCHANGED <<device, serial_fd, g_running, segment, wire, ended, shared, running, receive>>

-----------------------------------------------------------------------------
(* The receiving thread.                                                   *)

Check ==
  /\ rx = "check"
  /\ rx' = IF running THEN "load" ELSE "ended"
  /\ UNCHANGED <<device, fds, main, ended, shared, running, fd, file, dec, handed>>

Load ==
  /\ rx = "load"
  /\ fd' = shared
  /\ rx' = IF shared = None THEN "check" ELSE "read"
  /\ UNCHANGED <<device, fds, main, ended, shared, running, file, dec, handed>>

(* read() of a closed descriptor is an error other than EIO: the loop is   *)
(* broken.  Of an open one it waits, holding the file.                     *)
Read ==
  /\ rx = "read"
  /\ rx' = IF Open(fd) THEN "reading" ELSE "ended"
  /\ file' = fds[fd]
  /\ UNCHANGED <<device, fds, main, ended, shared, running, fd, dec, handed>>

(* The pass is over, and with it the scope of its descriptor.              *)
NextPass == rx' = "check" /\ fd' = None /\ file' = 0

ReadNothing ==
  /\ rx = "reading"
  /\ ~Alive(file)
  /\ NextPass
  /\ UNCHANGED <<device, fds, main, ended, shared, running, dec, handed>>

(* ION may fail on one of the frames, after it took the n before it.       *)
ReadBytes(n) ==
  /\ rx = "reading"
  /\ Alive(file)
  /\ n \in 1 .. Len(line)
  /\ NextPass
  /\ line' = SubSeq(line, n + 1, Len(line))
  /\ LET after == FoldLeft(KissDecByte, dec, SubSeq(line, 1, n))
         taken(m) == handed \o [i \in 1 .. m |-> StripAx25(after.out[i])]
     IN /\ dec' = [after EXCEPT !.out = <<>>]
        /\ \/ /\ handed' = taken(Len(after.out))
              /\ UNCHANGED running
           \/ /\ \E m \in 0 .. Len(after.out) - 1 : handed' = taken(m)
              /\ running' = FALSE
  /\ UNCHANGED <<plug, present, spoils, heard, fds, main, ended, shared>>

-----------------------------------------------------------------------------
Environment == (\E p \in Payloads : Hear(p)) \/ Unplug \/ Plug \/ EndSpan \/ shutDown

MainThread == \/ Test \/ Shutdown \/ Dequeue \/ DequeueNothing \/ Write \/ Drained
              \/ NotDrained \/ Mark \/ Close \/ Reopen \/ ReopenFails \/ Publish \/ Join

RxThread == Check \/ Load \/ Read \/ ReadNothing \/ \E n \in 1 .. Len(line) : ReadBytes(n)

Next == Environment \/ MainThread \/ RxThread

(* Both threads are scheduled; nothing is assumed of the TNC, of ION or of *)
(* the user.                                                               *)
Spec == Init /\ [][Next]_vars /\ WF_vars(MainThread) /\ WF_vars(RxThread)

-----------------------------------------------------------------------------
(* The types of all variables; the decoder stays within its buffer.        *)
TypeOK ==
  /\ plug \in 1 .. MaxUnplugs + 1 /\ present \in BOOLEAN
  /\ line \in Seq(Bytes) /\ spoils \in Nat /\ heard \in Seq(Payloads)
  /\ fds \in [Fds -> 0 .. plug]
  /\ tx \in {"loop", "dequeue", "write", "drain", "mark", "close", "open",
             "publish", "join", "done"}
  /\ serial_fd \in Fds \cup {None} /\ shared \in Fds \cup {None}
  /\ g_running \in BOOLEAN /\ ended \in BOOLEAN /\ running \in BOOLEAN
  /\ segment \in 0 .. MaxSegments /\ wire \in Seq(1 .. MaxSegments)
  /\ rx \in {"check", "load", "read", "reading", "ended"}
  /\ fd \in Fds \cup {None} /\ file \in 0 .. plug
  /\ dec \in [buf : Seq(Bytes), in_frame : BOOLEAN, escape : BOOLEAN, out : {<<>>}]
  /\ Len(dec.buf) <= MaxBuf
  /\ handed \in Seq(Seq(Bytes))

(* The two threads agree on the port: as long as the receiving thread can  *)
(* load it, the published descriptor is open and is the one the main       *)
(* thread writes to.  The order mark, close, open, publish keeps this.     *)
PublishedIsOpen ==
  shared # None /\ rx # "ended" => Open(shared) /\ shared = serial_fd

(* The payloads are not empty, and a frame with one, its command byte and  *)
(* its header fit the buffer of the decoder.                               *)
PayloadsFit == \A p \in Payloads : p # <<>> /\ Len(p) + 2 <= MaxBuf

(* Every segment reaches the TNC at most once and in ION's order, also one *)
(* whose write was followed by a failing tcdrain: it is given up, not      *)
(* written again on the new port.                                          *)
WrittenOnceInOrder == \A i, j \in DOMAIN wire : i < j => wire[i] < wire[j]

(* However read() cuts the stream, what ION is handed is what the TNC      *)
(* heard, in order and nothing left out, until the first loss of bytes.    *)
HandedAsHeard == spoils = 0 => IsPrefix(handed, heard)

(* The decoder is not reset when the port is opened again, so ION can be   *)
(* handed the beginning of one frame with the end of another.  Each loss   *)
(* of bytes spoils one frame and no more: the next FEND puts it right.     *)
OneFrameSpoiledPerLoss ==
  Cardinality({i \in DOMAIN handed : handed[i] \notin Range(heard)}) <= spoils

(* Once ION ends the span the process ends, and the one thing that can     *)
(* keep it is a read() nothing answers: no lock, sleep or lost flag does.  *)
EndsUnlessReading == <>ended => <>(tx = "done") \/ <>[](rx = "reading")

(* After the port was opened again "RX thread uses the new one": while the *)
(* adapter runs and a descriptor is published there is a thread to use it. *)
RxUsesNewPort ==
  g_running /\ running /\ ~ended /\ shared # None => rx # "ended"
=============================================================================
