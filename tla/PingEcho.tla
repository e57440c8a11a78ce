------------------------------ MODULE PingEcho ------------------------------
(***************************************************************************)
(* Stations that ping (cmd_ping) and stations that echo (cmd_echo) on one  *)
(* radio channel.  A transmission is heard whole or not at all by each     *)
(* station in range; what is heard waits, byte by byte, at the station's   *)
(* serial line, where read() cuts it anywhere.                             *)
(***************************************************************************)
EXTENDS Kiss, FiniteSetsExt

CONSTANTS
  Pingers, Echoers,  \* stations, by the one byte that stands for a callsign
  InRange,           \* InRange[s]: the stations that can hear s
  Target,            \* Target[p]: --dst of p
  Count,             \* --count
  MaxRead,           \* sizeof(read_buf)
  Noise,             \* what other stations send: an AX.25 frame
  MaxNoise,          \* bound: how often they do
  MaxEchoes          \* bound: frames echoed by all stations

Stations == Pingers \cup Echoers

ASSUME PingAssumption ==
  /\ Pingers \cap Echoers = {} /\ Stations \subseteq 0 .. 255
  /\ InRange \in [Stations -> SUBSET Stations]
  /\ Target \in [Pingers -> 0 .. 255]
  /\ Count \in 0 .. 255  \* the number of a ping is one byte here
  /\ Noise \in Seq(0 .. 255)
  /\ MaxRead \in Nat /\ MaxNoise \in Nat /\ MaxEchoes \in Nat

VARIABLES
  line,     \* line[s]: bytes at s not yet read
  dec,      \* dec[s]: the KISS decoder of s
  pc,       \* pc[p]: "send", "wait" for the reply, "done"
  seq,      \* seq[p]: the ping sent or to be sent
  noise,    \* what others have sent
  echoes,   \* frames echoed
  counted,  \* history: <<p, n>>, p counted a reply to its ping n
  echoed,   \* history: <<p, n>>, a station wrote an echo of ping n to p
  fresh     \* history: fresh[p], a reply to seq[p] came after it was sent

pinger  == <<pc, seq, counted>>
history == <<echoed, fresh>>
vars    == <<line, dec, pinger, noise, echoes, history>>

-----------------------------------------------------------------------------
(* Frames.  UI stands for control byte and PID; Ping for the magic; Stamp  *)
(* for the time, whose bytes may need stuffing.                            *)

UI == 3
Ping == 80
Stamp == FEND

BuildFrame(dst, src, info) == <<dst, src, UI>> \o info
StripOk(f) == Len(f) >= 3 /\ f[3] = UI
Info(f) == SubSeq(f, 4, Len(f))

PingPayload(n) == <<Ping, n, Stamp>>
IsPing(info) == Len(info) >= 3 /\ info[1] = Ping

(* Fault: any ping payload will do.                                        *)
MatchesAny(f, n) == StripOk(f) /\ IsPing(Info(f))

(* What a pinger takes for the reply to ping n.                            *)
Matches(f, n) == StripOk(f) /\ IsPing(Info(f)) /\ Info(f)[2] = n

(* The frame with the callsigns swapped.                                   *)
Echo(f) == BuildFrame(f[2], f[1], Info(f))

(* What goes back of the frames fs: those that are AX.25 frames.           *)
Echoes(fs) ==
  FlattenSeq([i \in DOMAIN fs |-> IF StripOk(fs[i]) THEN <<Echo(fs[i])>> ELSE <<>>])

-----------------------------------------------------------------------------
(* The frames fs go out from s, and each station in range of s hears all   *)
(* of them or, at its own luck, none.                                      *)
Heard(s, fs, H, ln) ==
  [r \in Stations |->
    IF r \in H THEN ln[r] \o FlattenSeq([i \in DOMAIN fs |-> KissEncode(fs[i])]) ELSE ln[r]]

Freshened(H, fs, fr) ==
  [p \in Pingers |-> fr[p] \/ (p \in H /\ pc[p] = "wait"
                                /\ \E i \in DOMAIN fs : Matches(fs[i], seq[p]))]

Init ==
  /\ line = [s \in Stations |-> <<>>]
  /\ dec = [s \in Stations |-> DecoderInit]
  /\ pc = [p \in Pingers |-> "send"] /\ seq = [p \in Pingers |-> 1]
  /\ noise = 0 /\ echoes = 0
  /\ counted = {} /\ echoed = {} /\ fresh = [p \in Pingers |-> FALSE]

Reads(s) == 1 .. Min({MaxRead, Len(line[s])})

-----------------------------------------------------------------------------
(* cmd_ping                                                                *)

(* Fault: one ping too many.                                               *)
MayPingOneMore(p) == pc[p] = "send" /\ seq[p] <= Count + 1

MayPing(p) == pc[p] = "send" /\ seq[p] <= Count

(* The decoder starts afresh with every ping.                              *)
SendPing(p) ==
  /\ MayPing(p)
  /\ LET f == BuildFrame(Target[p], p, PingPayload(seq[p])) IN
     \E H \in SUBSET InRange[p] :
       /\ line' = Heard(p, <<f>>, H, line)
       /\ fresh' = [Freshened(H, <<f>>, fresh) EXCEPT ![p] = FALSE]
  /\ dec' = [dec EXCEPT ![p] = DecoderInit]
  /\ pc' = [pc EXCEPT ![p] = "wait"]
  /\ UNCHANGED <<seq, noise, echoes, counted, echoed>>

NextPing(p) ==
  /\ pc' = [pc EXCEPT ![p] = "send"]
  /\ seq' = [seq EXCEPT ![p] = @ + 1]

(* n bytes are read.  They are fed to the decoder up to the one that       *)
(* completes the reply; the rest of them is thrown away.                   *)
ReadReply(p, n) ==
  /\ pc[p] = "wait"
  /\ n \in Reads(p)
  /\ LET after == FeedAll(dec[p], SubSeq(line[p], 1, n)) IN
     IF \E i \in DOMAIN after.out : Matches(after.out[i], seq[p])
     THEN /\ counted' = counted \cup {<<p, seq[p]>>}
          /\ NextPing(p)
          /\ UNCHANGED dec
     ELSE /\ dec' = [dec EXCEPT ![p] = [after EXCEPT !.out = <<>>]]
          /\ UNCHANGED pinger
  /\ line' = [line EXCEPT ![p] = SubSeq(@, n + 1, Len(@))]
  /\ UNCHANGED <<noise, echoes, history>>

(* No time is left of the timeout.                                         *)
ReplyTimeout(p) ==
  /\ pc[p] = "wait"
  /\ NextPing(p)
  /\ UNCHANGED <<line, dec, noise, echoes, counted, history>>

(* All pings are sent, a write failed, or a signal came.                   *)
EndPing(p) ==
  /\ pc[p] # "done"
  /\ pc' = [pc EXCEPT ![p] = "done"]
  /\ UNCHANGED <<line, dec, seq, noise, echoes, counted, history>>

-----------------------------------------------------------------------------
(* cmd_echo: every AX.25 frame that is heard, whoever it is for.           *)
ReadAndEcho(e, n) ==
  /\ n \in Reads(e)
  /\ LET after == FeedAll(dec[e], SubSeq(line[e], 1, n))
         back  == Echoes(after.out)
     IN /\ echoes + Len(back) <= MaxEchoes
        /\ echoes' = echoes + Len(back)
        /\ dec' = [dec EXCEPT ![e] = [after EXCEPT !.out = <<>>]]
        /\ \E H \in IF back = <<>> THEN {{}} ELSE SUBSET InRange[e] :
             /\ line' = Heard(e, back, H, [line EXCEPT ![e] = SubSeq(@, n + 1, Len(@))])
             /\ fresh' = Freshened(H, back, fresh)
        /\ echoed' = echoed \cup {<<back[i][1], Info(back[i])[2]>> :
                                    i \in {j \in DOMAIN back : IsPing(Info(back[j]))}}
  /\ UNCHANGED <<pinger, noise>>

OthersSend ==
  /\ noise < MaxNoise
  /\ noise' = noise + 1
  /\ \E H \in SUBSET Stations : line' = Heard(0, <<Noise>>, H, line)
  /\ UNCHANGED <<dec, pinger, echoes, history>>

-----------------------------------------------------------------------------
Next ==
  \/ \E p \in Pingers : \/ SendPing(p) \/ ReplyTimeout(p) \/ EndPing(p)
                        \/ \E n \in Reads(p) : ReadReply(p, n)
  \/ \E e \in Echoers : \E n \in Reads(e) : ReadAndEcho(e, n)
  \/ OthersSend

Spec == Init /\ [][Next]_vars

-----------------------------------------------------------------------------
(* What the properties need of the stations, beyond the assumptions.       *)

(* Each station belongs to one pinger, none hears another pinger's, and no *)
(* pinger hears itself: a reply is told by its number alone.               *)
Apart ==
  \E cell \in [Stations -> Pingers] :
    /\ \A p \in Pingers : cell[p] = p /\ p \notin InRange[p]
    /\ \A s \in Stations : \A r \in InRange[s] : cell[r] = cell[s]

(* What the others send is no ping.                                        *)
OthersDoNotPing == ~(StripOk(Noise) /\ IsPing(Info(Noise)))

(* The decoder has room for a ping.                                        *)
PingFits == Len(BuildFrame(0, 0, PingPayload(0))) <= MaxPayload

-----------------------------------------------------------------------------
(* The types of all variables; a ping is numbered from 1 to Count.         *)
TypeOK ==
  /\ line \in [Stations -> Seq(0 .. 255)]
  /\ \A s \in Stations : /\ dec[s].buf \in Seq(0 .. 255) /\ Len(dec[s].buf) <= MaxPayload + 1
                         /\ dec[s].in_frame \in BOOLEAN /\ dec[s].escape \in BOOLEAN
                         /\ dec[s].out = <<>>
  /\ pc \in [Pingers -> {"send", "wait", "done"}]
  /\ seq \in [Pingers -> 1 .. Count + 1]
  /\ noise \in 0 .. MaxNoise /\ echoes \in 0 .. MaxEchoes
  /\ counted \subseteq Pingers \X (1 .. Count)
  /\ fresh \in [Pingers -> BOOLEAN]

(* A counted reply to ping n is an echo of ping n: the late echo of an     *)
(* earlier ping, which a timeout has given up, is never counted for it.    *)
CountedWasEchoed == counted \subseteq echoed

(* A reply that comes in time is not missed: when the waiting pinger has   *)
(* read all there is, no reply to its ping was among it.  Leftovers of an  *)
(* earlier wait, a frame cut in two by the timeout, bytes thrown away and  *)
(* frames too long do not cost it the frame that follows.                  *)
ReplyInTimeCounts ==
  \A p \in Pingers : pc[p] = "wait" /\ line[p] = <<>> => ~fresh[p]
=============================================================================
