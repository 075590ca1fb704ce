------------------------------ MODULE Library ------------------------------
(***************************************************************************)
(* The parts of the program that stand alone, side by side: a behaviour    *)
(* exercises one of them, which is chosen at the start.  So they share a   *)
(* run without their states being multiplied.                              *)
(***************************************************************************)
EXTENDS Integers, Sequences

CONSTANTS
    Values, NewOpcodes, MaxItems,                                      \* Packets
    Capacity, MaxOutput, ExitCodes,                                    \* StartProcess
    MaxCallbacks,                                                      \* AsyncCallbacks
    WordSize, Steps, MaxPasses, Intervals, AVG_DIFF_COUNT, Radices,    \* Timers
    Addresses, Files,                                                  \* IPLocation
    MaxPackets,                                                        \* PacketQueue
    N, g, Radix, KEY_LENGTH, Passwords, Salts, Exponents,              \* SRP6
    Drop, MaxBytes, MaxChunk, DIGEST_LENGTH, IvSize, TagSize,          \* Ciphers
    MaxDamages, Plaintexts, TOTP_INTERVAL, Times

VARIABLES
    unit,
    buf, said, last,
    script, child, exitCode, pipe, logged, wpc, myChild, was_terminated, future, tpc,
    callbacks, updateCallbacks, asked, kept, added, ready, invoked, lost,
    now, seen, measured, diffs, timers, passes, stats, undefined,
    _ipLocationStore, file, aborted, lookup,
    _queue, _canceled, accepted, container, result, handled, deleted,
    account, srp, response, outcome,
    crypt, peer, wire, got, sent, gen, data, sealed, opened, token

packetVars    == <<buf, said, last>>
processVars   == <<script, child, exitCode, pipe, logged, wpc, myChild, was_terminated, future, tpc>>
callbacksVars == <<callbacks, updateCallbacks, asked, kept, added, ready, invoked, lost>>
timerVars     == <<now, seen, measured, diffs, timers, passes, stats, undefined>>
locationVars  == <<_ipLocationStore, file, aborted, lookup>>
queueVars     == <<_queue, _canceled, accepted, container, result, handled, deleted>>
loginVars     == <<account, srp, response, outcome>>
cipherVars    == <<crypt, peer, wire, got, sent, gen, data, sealed, opened, token>>

vars == <<unit, packetVars, processVars, callbacksVars, timerVars, locationVars, queueVars,
          loginVars, cipherVars>>

-----------------------------------------------------------------------------
(***************************************************************************)
(* The units, each with the constants and variables of its name            *)
(***************************************************************************)
Packet    == INSTANCE Packets
Process   == INSTANCE StartProcess
Callbacks == INSTANCE AsyncCallbacks
Timer     == INSTANCE Timers
Location  == INSTANCE IPLocation
Queue     == INSTANCE PacketQueue
Login     == INSTANCE SRP6
Cipher    == INSTANCE Ciphers

\* Packets hold values of their types, and so few that append() does not abort.
ASSUME ItemAssumption ==
    /\ DOMAIN Values \subseteq Packet!Types /\ NewOpcodes \subseteq Packet!Opcodes /\ MaxItems \in Nat
    /\ \A t \in DOMAIN Values : \A v \in Values[t] :
         Packet!IsValue(t, v) /\ MaxItems * Len(Packet!Encode(t, v)) < Packet!MaxStorage

\* Addresses are numbers, and a file is a sequence of lines.
ASSUME LocationAssumption == Addresses \subseteq Nat /\ Files \subseteq Seq(Location!Lines)

\* A digest and a tag have bytes, an interval is not empty, and Garbage is no plaintext.
ASSUME CipherAssumption ==
    /\ Drop \in Nat /\ MaxChunk \in Nat /\ IvSize \in Nat /\ TagSize \in Nat \ {0}
    /\ Plaintexts \subseteq Seq(Nat)
    /\ DIGEST_LENGTH \in Nat \ {0} /\ TOTP_INTERVAL \in Nat \ {0} /\ Times \subseteq Int

\* A byte has values, and the modulus fits the arrays it is kept in.
ASSUME LoginAssumption ==
    /\ N \in Nat \ {0} /\ g \in Nat /\ Radix \in Nat \ {0} /\ KEY_LENGTH \in Nat
    /\ Passwords \subseteq Nat /\ Salts \subseteq Nat /\ Exponents \subseteq Nat
    /\ Login!Fits(N, KEY_LENGTH)

\* A pass is shorter than the range of the counter, and no unit of time is empty.
ASSUME TimerAssumption ==
    /\ WordSize \in Nat \ {0} /\ Steps \subseteq 0 .. WordSize - 1 /\ Intervals \subseteq Nat
    /\ AVG_DIFF_COUNT \in Nat \ {0} /\ Radices \in Seq(Nat \ {0})

\* The trackers keep what is left in int32, which numbers without a bound stand for:
\* with intervals and passes below half the counter's range no subtraction leaves it.
ASSUME Int32Assumption == \A ms \in Steps \cup Intervals : ms < WordSize \div 2

-----------------------------------------------------------------------------
Init ==
    /\ unit \in {"packet", "process", "callbacks", "timer", "location", "queue", "login", "cipher"}
    /\ Packet!Init /\ Process!Init /\ Callbacks!Init /\ Timer!Init /\ Location!Init /\ Queue!Init
    /\ Login!Init /\ Cipher!Init

PacketStep ==
    /\ unit = "packet" /\ Packet!Next
    /\ UNCHANGED <<unit, processVars, callbacksVars, timerVars, locationVars, queueVars, loginVars, cipherVars>>
ProcessStep ==
    /\ unit = "process" /\ Process!Next
    /\ UNCHANGED <<unit, packetVars, callbacksVars, timerVars, locationVars, queueVars, loginVars, cipherVars>>
CallbacksStep ==
    /\ unit = "callbacks" /\ Callbacks!Next
    /\ UNCHANGED <<unit, packetVars, processVars, timerVars, locationVars, queueVars, loginVars, cipherVars>>
TimerStep ==
    /\ unit = "timer" /\ Timer!Next
    /\ UNCHANGED <<unit, packetVars, processVars, callbacksVars, locationVars, queueVars, loginVars, cipherVars>>
LocationStep ==
    /\ unit = "location" /\ Location!Next
    /\ UNCHANGED <<unit, packetVars, processVars, callbacksVars, timerVars, queueVars, loginVars, cipherVars>>
QueueStep ==
    /\ unit = "queue" /\ Queue!Next
    /\ UNCHANGED <<unit, packetVars, processVars, callbacksVars, timerVars, locationVars, loginVars, cipherVars>>
LoginStep ==
    /\ unit = "login" /\ Login!Next
    /\ UNCHANGED <<unit, packetVars, processVars, callbacksVars, timerVars, locationVars, queueVars, cipherVars>>
CipherStep ==
    /\ unit = "cipher" /\ Cipher!Next
    /\ UNCHANGED <<unit, packetVars, processVars, callbacksVars, timerVars, locationVars, queueVars, loginVars>>

Next == PacketStep \/ ProcessStep \/ CallbacksStep \/ TimerStep \/ LocationStep \/ QueueStep
        \/ LoginStep \/ CipherStep

\* The worker of a process goes on, and so does a child that can, up to its exit; the
\* owner of callbacks calls ProcessReadyCallbacks() again and again.
Fairness ==
    /\ WF_processVars(unit = "process" /\ Process!Worker)
    /\ WF_processVars(unit = "process" /\ Process!ChildWrites)
    /\ WF_processVars(unit = "process" /\ Process!ChildExits)
    /\ WF_callbacksVars(unit = "callbacks" /\ Callbacks!Process)

Spec == Init /\ [][Next]_vars /\ Fairness

-----------------------------------------------------------------------------
(***************************************************************************)
(* The properties of the units                                             *)
(***************************************************************************)

\* Items are read from a packet as they were written: ByteBuffer, DiscordPacket.
RoundTrip == Packet!RoundTrip

\* A success of StartProcess() is the child's own, and AsyncProcessResult::Terminate()
\* reaches no child that still writes.
SuccessIsTheChilds == Process!SuccessIsTheChilds /\ Process!TerminateIsLate

\* StartProcess() ends with the child unless the two wait for each other.
EndsUnlessStuck == Process!EndsUnlessStuck

\* AsyncCallbackProcessor invokes a callback once or loses it with an exception.
EachCallbackOnce == Callbacks!EachCallbackOnce

\* AsyncCallbackProcessor invokes a callback whose result is there.
ReadyIsInvoked == Callbacks!ReadyIsInvoked

\* getMSTimeDiff() and the timers lose no time but at the wrap, UpdateTime tells of the
\* last passes, and ToTimeString() of the time that was measured.
TimersKeepPace == Timer!TimersKeepPace /\ Timer!StatisticsOfWindow /\ Timer!TextsTell

\* IpLocationStore finds the range of an address.
RangeLookup == Location!RangeLookup

\* PacketQueue keeps the order of its packets.
PacketsInOrder == Queue!PacketsInOrder

\* SRP6 leaves a client that knows the password, and the server, with one key.
KeysAgree == Login!KeysAgree

\* AuthCrypt, SessionKeyGenerator, the AES envelope and TOTP agree with their peers.
CiphersAgree == Cipher!CiphersAgree
=============================================================================
