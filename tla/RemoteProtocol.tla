--------------------------- MODULE RemoteProtocol ---------------------------
(***************************************************************************)
(* GDB's remote serial protocol (remotegdb.cc).  The Server is targetloop, *)
(* which takes a command with getpkt, carries it out and answers with      *)
(* putpkt; the Client is GDB, whose end of the same code is remote_send.   *)
(*                                                                         *)
(* The connection is TCP: nothing is lost, and what is written is read in  *)
(* order, but late.  A read therefore times out whether or not something   *)
(* is under way.  A packet is its '$' and the rest of it, which a reader   *)
(* takes one after the other; the checksum of what TCP delivers is right.  *)
(* Commands are numbered, and an answer has the number of its command.     *)
(***************************************************************************)
EXTENDS Naturals, Sequences

CONSTANTS MaxCommands,  \* bound on the commands of the client
          MaxTimeouts   \* bound on the timeouts of each end

MaxTries == 3
MaxResends == 3

End == {"Server", "Client"}
Other(p) == IF p = "Server" THEN "Client" ELSE "Server"

Ack == [kind |-> "+"]
Nak == [kind |-> "-"]
Start == [kind |-> "$"]
Rest(n) == [kind |-> "data", number |-> n]
Packet(n) == <<Start, Rest(n)>>

(* What getpkt leaves in the buffer when it gives up: "timeout". *)
Garbage == 0

VARIABLES chan,      \* what is under way to each end
          pc,        \* where each end waits
          gobbling,  \* getpkt was called by putpkt, for the junk buffer
          tries,     \* of getpkt
          tcount,    \* of putpkt
          number,    \* of the packet that each end sent last
          executed,  \* highest number of a command that the server carried out
          timeouts   \* of each end, so far

vars == <<chan, pc, gobbling, tries, tcount, number, executed, timeouts>>

Init ==
    /\ chan = [p \in End |-> <<>>]
    /\ pc = [Server |-> "start", Client |-> "idle"]
    /\ gobbling = [p \in End |-> FALSE]
    /\ tries = [p \in End |-> 1]
    /\ tcount = [p \in End |-> 0]
    /\ number = [p \in End |-> 0]
    /\ executed = 0
    /\ timeouts = [p \in End |-> 0]

Arrived(p) == Head(chan[p])

(* One character is taken and others are written. *)
Exchange(p, out) ==
    chan' = [chan EXCEPT ![p] = Tail(@), ![Other(p)] = @ \o out]

Write(p, out) == chan' = [chan EXCEPT ![Other(p)] = @ \o out]

CountTimeout(p) ==
    /\ timeouts[p] < MaxTimeouts
    /\ timeouts' = [timeouts EXCEPT ![p] = @ + 1]

-----------------------------------------------------------------------------
(* getpkt ends with packet n, after writing out: the caller is putpkt, which *)
(* looks for its acknowledgement again, or targetloop, which carries n out   *)
(* and calls putpkt, or remote_send.                                         *)
PacketTaken(p, n) ==
    IF gobbling[p]
      THEN /\ gobbling' = [gobbling EXCEPT ![p] = FALSE]
           /\ pc' = [pc EXCEPT ![p] = "ack"]
           /\ UNCHANGED <<tcount, number, executed>>
      ELSE /\ pc' = [pc EXCEPT ![p] = IF p = "Server" THEN "ack" ELSE "idle"]
           /\ IF p = "Server"
                THEN /\ number' = [number EXCEPT ![p] = n]
                     /\ tcount' = [tcount EXCEPT ![p] = 0]
                     /\ executed' = IF n > executed THEN n ELSE executed
                ELSE UNCHANGED <<number, tcount, executed>>
           /\ UNCHANGED gobbling

Answer(p, n) == IF p = "Server" /\ ~gobbling[p] THEN Packet(n) ELSE <<>>

(* getpkt begins. *)
GetPacket(p, junk) ==
    /\ pc' = [pc EXCEPT ![p] = "start"]
    /\ tries' = [tries EXCEPT ![p] = 1]
    /\ gobbling' = [gobbling EXCEPT ![p] = junk]

ReadStart(p) ==
    /\ pc[p] = "start" /\ chan[p] # <<>>
    /\ Exchange(p, <<>>)
    /\ pc' = [pc EXCEPT ![p] = IF Arrived(p) = Start THEN "frame" ELSE "start"]
    /\ UNCHANGED <<gobbling, tries, tcount, number, executed, timeouts>>

ReadFrame(p) ==
    /\ pc[p] = "frame" /\ chan[p] # <<>>
    /\ LET n == Arrived(p).number
       IN  Exchange(p, <<Ack>> \o Answer(p, n)) /\ PacketTaken(p, n)
    /\ UNCHANGED <<tries, timeouts>>

(* The server waits for a command for ever, but not for the rest of one. *)
GetTimeout(p) ==
    /\ \/ pc[p] = "frame"
       \/ pc[p] = "start" /\ (p = "Client" \/ gobbling[p])
    /\ CountTimeout(p)
    /\ IF tries[p] < MaxTries
         THEN /\ Write(p, <<Nak>>)
              /\ tries' = [tries EXCEPT ![p] = @ + 1]
              /\ pc' = [pc EXCEPT ![p] = "start"]
              /\ UNCHANGED <<gobbling, tcount, number, executed>>
         ELSE /\ Write(p, <<Nak, Ack>> \o Answer(p, Garbage))
              /\ PacketTaken(p, Garbage)
              /\ UNCHANGED tries

-----------------------------------------------------------------------------
(* putpkt.  A '$' makes it call getpkt, which looks for a '$' of its own.    *)
ReadAck(p) ==
    /\ pc[p] = "ack" /\ chan[p] # <<>>
    /\ Exchange(p, <<>>)
    /\ IF Arrived(p) \in {Ack, Start}
         THEN GetPacket(p, Arrived(p) = Start)
         ELSE UNCHANGED <<pc, tries, gobbling>>
    /\ UNCHANGED <<tcount, number, executed, timeouts>>

PutTimeout(p) ==
    /\ pc[p] = "ack"
    /\ CountTimeout(p)
    /\ tcount' = [tcount EXCEPT ![p] = @ + 1]
    /\ IF tcount[p] < MaxResends
         THEN Write(p, Packet(number[p])) /\ UNCHANGED <<pc, tries, gobbling>>
         ELSE GetPacket(p, FALSE) /\ UNCHANGED chan
    /\ UNCHANGED <<number, executed>>

(* remote_send *)
SendCommand ==
    /\ pc["Client"] = "idle"
    /\ number["Client"] < MaxCommands
    /\ number' = [number EXCEPT !["Client"] = @ + 1]
    /\ Write("Client", Packet(number["Client"] + 1))
    /\ tcount' = [tcount EXCEPT !["Client"] = 0]
    /\ pc' = [pc EXCEPT !["Client"] = "ack"]
    /\ UNCHANGED <<gobbling, tries, executed, timeouts>>

Next ==
    \/ SendCommand
    \/ \E p \in End : \/ ReadStart(p) \/ ReadFrame(p) \/ GetTimeout(p)
                      \/ ReadAck(p) \/ PutTimeout(p)

Spec == Init /\ [][Next]_vars

-----------------------------------------------------------------------------
(* "It's probably an old response, and we're out of sync.  Just gobble up    *)
(* the packet and ignore it" (remotegdb.cc): a command that the server       *)
(* ignores is one that it has carried out already.                           *)
GobblesOldPackets ==
    [][gobbling["Server"] /\ ReadFrame("Server")
         => Arrived("Server").number <= executed]_vars
=============================================================================
