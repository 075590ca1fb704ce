--------------------------- MODULE AsyncCallbacks ---------------------------
(***************************************************************************)
(* AsyncCallbackProcessor: callbacks wait for a result, which others bring *)
(* at any time.  One thread asks them in turn; a callback that is invoked  *)
(* may add callbacks, and may throw.                                       *)
(***************************************************************************)
EXTENDS Integers, Sequences, FiniteSets

CONSTANT MaxCallbacks   \* callbacks that are ever added, named 1, 2, ...

VARIABLES callbacks,        \* _callbacks
          updateCallbacks,  \* the list ProcessReadyCallbacks() took, in progress
          asked,            \* how many of it were asked
          kept,             \* those of them that were not ready
          added, ready,     \* callbacks added so far; those whose result is there
          invoked, lost     \* callbacks invoked; callbacks dropped by an exception

vars == <<callbacks, updateCallbacks, asked, kept, added, ready, invoked, lost>>

Init ==
    /\ callbacks = << >> /\ updateCallbacks = << >> /\ asked = 0 /\ kept = << >>
    /\ added = 0 /\ ready = {} /\ invoked = << >> /\ lost = {}

Processing == updateCallbacks # << >>

\* From outside, or (Invocation below) from a callback.
AddCallback ==
    /\ ~Processing /\ added < MaxCallbacks
    /\ callbacks' = Append(callbacks, added + 1) /\ added' = added + 1
    /\ UNCHANGED <<updateCallbacks, asked, kept, ready, invoked, lost>>

ResultArrives ==
    /\ \E c \in 1 .. added : c \notin ready /\ ready' = ready \cup {c}
    /\ UNCHANGED <<callbacks, updateCallbacks, asked, kept, added, invoked, lost>>

\* ProcessReadyCallbacks(): takes the list, so that callbacks can add to the member.
ProcessReadyCallbacks ==
    /\ ~Processing /\ callbacks # << >>
    /\ updateCallbacks' = callbacks /\ callbacks' = << >> /\ asked' = 0 /\ kept' = << >>
    /\ UNCHANGED <<added, ready, invoked, lost>>

Asking == updateCallbacks[asked + 1]

NotReady ==
    /\ Processing /\ asked < Len(updateCallbacks) /\ Asking \notin ready
    /\ asked' = asked + 1 /\ kept' = Append(kept, Asking)
    /\ UNCHANGED <<callbacks, updateCallbacks, added, ready, invoked, lost>>

\* What a callback does while it is invoked: nothing to the list, or it adds a callback.
Invocation ==
    \/ UNCHANGED <<callbacks, added>>
    \/ /\ added < MaxCallbacks
       /\ callbacks' = Append(callbacks, added + 1) /\ added' = added + 1

InvokeIfReady ==
    /\ Processing /\ asked < Len(updateCallbacks) /\ Asking \in ready
    /\ asked' = asked + 1 /\ invoked' = Append(invoked, Asking)
    /\ Invocation
    /\ UNCHANGED <<updateCallbacks, kept, ready, lost>>

\* An exception leaves ProcessReadyCallbacks() with its list: the callbacks that were
\* not invoked are gone.  What the callback added in front of its throw stays.
CallbackThrows ==
    /\ Processing /\ asked < Len(updateCallbacks) /\ Asking \in ready
    /\ invoked' = Append(invoked, Asking)
    /\ Invocation
    /\ lost' = lost \cup {kept[i] : i \in DOMAIN kept}
                    \cup {updateCallbacks[i] : i \in asked + 2 .. Len(updateCallbacks)}
    /\ updateCallbacks' = << >> /\ asked' = 0 /\ kept' = << >>
    /\ UNCHANGED ready

\* Mutant of PutBack: what was added meanwhile is overwritten.
PutBackOverwrites ==
    /\ Processing /\ asked = Len(updateCallbacks)
    /\ callbacks' = kept
    /\ updateCallbacks' = << >> /\ asked' = 0 /\ kept' = << >>
    /\ UNCHANGED <<added, ready, invoked, lost>>

\* What is left goes behind the callbacks that were added meanwhile.
PutBack ==
    /\ Processing /\ asked = Len(updateCallbacks)
    /\ callbacks' = callbacks \o kept
    /\ updateCallbacks' = << >> /\ asked' = 0 /\ kept' = << >>
    /\ UNCHANGED <<added, ready, invoked, lost>>

Process == ProcessReadyCallbacks \/ NotReady \/ InvokeIfReady \/ CallbackThrows \/ PutBack
Next == AddCallback \/ ResultArrives \/ Process

-----------------------------------------------------------------------------
(***************************************************************************)
(* Properties                                                              *)
(***************************************************************************)
Count(c, list) == Cardinality({i \in DOMAIN list : list[i] = c})
Waiting(c) ==
    Count(c, callbacks) + Count(c, kept)
        + Cardinality({i \in asked + 1 .. Len(updateCallbacks) : updateCallbacks[i] = c})

\* Every callback that was added waits in one place, was invoked once, with its result
\* there, or was lost with an exception of another one: also those that callbacks
\* add while the list is gone through.
EachCallbackOnce ==
    \A c \in 1 .. added :
        /\ Waiting(c) + Count(c, invoked) + Cardinality({c} \cap lost) = 1
        /\ Count(c, invoked) = 1 => c \in ready

\* A callback whose result is there is invoked, or was lost.
ReadyIsInvoked ==
    \A c \in 1 .. MaxCallbacks :
        c \in ready ~> (c \in lost \/ \E i \in DOMAIN invoked : invoked[i] = c)
=============================================================================
