------------------------------- MODULE Signals -------------------------------
(***************************************************************************)
(* Sending a text through two signals (sems/signals/main.c): the parent    *)
(* sends one bit as SIGUSR1 or SIGUSR2 and sleeps in sigsuspend, the child *)
(* sleeps in sigsuspend and acknowledges every bit with SIG_GOT, which is  *)
(* SIGUSR1 too.  Standard signals do not queue: a second one that arrives  *)
(* while the first is pending is lost.                                     *)
(***************************************************************************)
EXTENDS Integers, Sequences

CONSTANTS
  Bits,       \* bits in a byte
  Messages,   \* what the parent may send: bytes, the last of them 0
  ForkMayFail

ASSUME BitsAssumption == Bits \in Nat \ {0} /\ ForkMayFail \in BOOLEAN
ASSUME MessagesAssumption ==
  \A m \in Messages : /\ m \in Seq(0 .. 2 ^ Bits - 1)
                      /\ Len(m) > 0 /\ m[Len(m)] = 0

SIG_0 == 0
SIG_1 == 1
SIG_GOT == SIG_0

VARIABLES
  msg,
  ppc, ppend,        \* parent: where it is, pending signals
  byteNo, bitNo,     \* the i of send_message and the i of send_byte
  cpc, cpend,        \* child: where it is, pending signals
  recieved_bit, childBit, byte,   \* last bit, the i of recieve_byte, the byte so far
  out                \* what the child has printed

parent      == <<ppc, byteNo, bitNo>>
child       == <<recieved_bit, childBit, byte, out>>
signalsVars == <<msg, parent, ppend, cpc, cpend, child>>

\* main has blocked both signals and installed sender_handler.
SignalsInit ==
  /\ msg \in Messages /\ out = <<>>
  /\ ppc = "fork" /\ byteNo = 1 /\ bitNo = 0 /\ ppend = {}
  /\ cpc = "unborn" /\ cpend = {}
  /\ recieved_bit = -1 /\ childBit = 0 /\ byte = 0

Fork ==
  /\ ppc = "fork" /\ ppc' = "send" /\ cpc' = "sigaction"
  /\ UNCHANGED <<msg, byteNo, bitNo, ppend, cpend, child>>

\* The failure is reported and the parent goes on, with -1 for the child.
ForkFails ==
  /\ ppc = "fork" /\ ForkMayFail /\ ppc' = "send"
  /\ UNCHANGED <<msg, byteNo, bitNo, ppend, cpc, cpend, child>>

-----------------------------------------------------------------------------
(* parent: send_message, send_byte, send_bit                               *)

Mutant_SendBit ==
  /\ ppc = "send" /\ ppc' = "suspend"
  /\ cpend' = IF cpc = "suspend" THEN cpend \cup {(msg[byteNo] \div 2 ^ bitNo) % 2} ELSE cpend
  /\ UNCHANGED <<msg, byteNo, bitNo, ppend, cpc, child>>

\* The signals are blocked in the child until its sigsuspend, so one sent
\* before it has installed its handlers stays pending.
SendBit ==
  /\ ppc = "send" /\ ppc' = "suspend"
  /\ cpend' = IF cpc = "unborn" THEN cpend ELSE cpend \cup {(msg[byteNo] \div 2 ^ bitNo) % 2}
  /\ UNCHANGED <<msg, byteNo, bitNo, ppend, cpc, child>>

Mutant_Acknowledged ==
  /\ ppc = "suspend"
  /\ bitNo' = (bitNo + 1) % Bits
  /\ byteNo' = IF bitNo' = 0 THEN byteNo + 1 ELSE byteNo
  /\ ppc' = IF byteNo' <= Len(msg) THEN "send" ELSE "wait"
  /\ UNCHANGED <<msg, ppend, cpc, cpend, child>>

\* sigsuspend(&wait_mask) returns after sender_handler; on to the next bit.
Acknowledged ==
  /\ ppc = "suspend" /\ SIG_GOT \in ppend /\ ppend' = ppend \ {SIG_GOT}
  /\ bitNo' = (bitNo + 1) % Bits
  /\ byteNo' = IF bitNo' = 0 THEN byteNo + 1 ELSE byteNo
  /\ ppc' = IF byteNo' <= Len(msg) THEN "send" ELSE "wait"
  /\ UNCHANGED <<msg, cpc, cpend, child>>

Reap ==
  /\ ppc = "wait" /\ cpc \in {"unborn", "exited"} /\ ppc' = "exited"
  /\ UNCHANGED <<msg, byteNo, bitNo, ppend, cpc, cpend, child>>

-----------------------------------------------------------------------------
(* child: recieve_byte, recieve_bit                                        *)

Handlers ==
  /\ cpc = "sigaction" /\ cpc' = "suspend"
  /\ UNCHANGED <<msg, parent, ppend, cpend, child>>

\* sigsuspend(&recieve_mask) runs reciever_handler and returns.
Deliver ==
  /\ cpc = "suspend" /\ cpc' = "got"
  /\ \E s \in cpend : cpend' = cpend \ {s} /\ recieved_bit' = s
  /\ UNCHANGED <<msg, parent, ppend, childBit, byte, out>>

\* kill(getppid(), SIG_GOT); the bit is not used yet.
Got ==
  /\ cpc = "got" /\ cpc' = "acked" /\ ppend' = ppend \cup {SIG_GOT}
  /\ UNCHANGED <<msg, parent, cpend, child>>

Mutant_Store ==
  /\ cpc = "acked"
  /\ childBit' = (childBit + 1) % (Bits - 1)
  /\ LET b == byte + recieved_bit * 2 ^ childBit
     IN  /\ byte' = IF childBit' = 0 THEN 0 ELSE b
         /\ out' = IF childBit' = 0 /\ b # 0 THEN Append(out, b) ELSE out
         /\ cpc' = IF childBit' = 0 /\ b = 0 THEN "exited" ELSE "suspend"
  /\ UNCHANGED <<msg, parent, ppend, cpend, recieved_bit>>

\* Add the bit, and print the byte when it is complete; a zero byte ends the
\* child.  The next bit may be pending already, blocked until sigsuspend.
Store ==
  /\ cpc = "acked"
  /\ childBit' = (childBit + 1) % Bits
  /\ LET b == byte + recieved_bit * 2 ^ childBit
     IN  /\ byte' = IF childBit' = 0 THEN 0 ELSE b
         /\ out' = IF childBit' = 0 /\ b # 0 THEN Append(out, b) ELSE out
         /\ cpc' = IF childBit' = 0 /\ b = 0 THEN "exited" ELSE "suspend"
  /\ UNCHANGED <<msg, parent, ppend, cpend, recieved_bit>>

TheParent == Fork \/ ForkFails \/ SendBit \/ Acknowledged \/ Reap
TheChild  == Handlers \/ Deliver \/ Got \/ Store

SignalsNext == TheParent \/ TheChild

SignalsSpec == SignalsInit /\ [][SignalsNext]_signalsVars

\* Both processes get the CPU, and sigsuspend returns when a signal is there.
SignalsFairSpec == SignalsSpec /\ WF_signalsVars(TheParent) /\ WF_signalsVars(TheChild)

-----------------------------------------------------------------------------
(* Properties.                                                             *)

Byte == 0 .. 2 ^ Bits - 1

SignalsTypeOK ==
  /\ msg \in Messages /\ out \in Seq(Byte)
  /\ ppc \in {"fork", "send", "suspend", "wait", "exited"}
  /\ byteNo \in 1 .. Len(msg) + 1 /\ bitNo \in 0 .. Bits - 1 /\ ppend \subseteq {SIG_GOT}
  /\ cpc \in {"unborn", "sigaction", "suspend", "got", "acked", "exited"}
  /\ cpend \subseteq {SIG_0, SIG_1} /\ recieved_bit \in {-1, 0, 1}
  /\ childBit \in 0 .. Bits - 1 /\ byte \in Byte

\* No signal is ever sent while another is pending at the same process, where
\* it would be merged with it or overtake it; nor is one left when its sender
\* has moved on.
NoSignalLost ==
  /\ ppc = "send" => cpend = {} /\ ppend = {}
  /\ cpc = "got" => cpend = {} /\ ppend = {}

\* The byte whose bit the child holds: the parent may have gone on to the next.
childByteNo ==
  IF cpc = "acked" /\ SIG_GOT \notin ppend /\ bitNo = 0 THEN byteNo - 1 ELSE byteNo

\* The child acknowledges a bit before it has used it.  Its place in the byte is
\* still the parent's, or one bit further while the acknowledgement is on its
\* way, or one bit behind until it has used a bit the parent has gone on from;
\* and the bit it holds is the one that was sent for that place.
InStep ==
  /\ cpc \in {"sigaction", "suspend", "got"} =>
       childBit = IF SIG_GOT \in ppend THEN (bitNo + 1) % Bits ELSE bitNo
  /\ cpc = "acked" =>
       bitNo = IF SIG_GOT \in ppend THEN childBit ELSE (childBit + 1) % Bits
  /\ cpc \in {"got", "acked"} =>
       recieved_bit = (msg[childByteNo] \div 2 ^ childBit) % 2

\* A text without zero bytes arrives and both processes end.
Plain == \A n \in 1 .. Len(msg) - 1 : msg[n] # 0
Delivered ==
  (ppc = "send" /\ cpc = "sigaction" /\ Plain)
    ~> (ppc = "exited" /\ out = SubSeq(msg, 1, Len(msg) - 1))
=============================================================================
