------------------------------ MODULE Notifier -------------------------------
(***************************************************************************)
(* What the channels of the agent promise, whatever the order in which the *)
(* loop goes through events and channels: each pair of a channel and a     *)
(* condition key is a throttle of its own.  A pair is told of its          *)
(* condition, stays quiet for RepeatAfter of its channel (for ever when    *)
(* that is None), and an attempt that fails is as if it had not been made. *)
(***************************************************************************)
EXTENDS Integers

CONSTANTS
    Channels,      \* the channels the agent was built with
    EventKeys,     \* Event.key: a name of the condition, not of the occurrence
    RepeatAfter,   \* AbstractChannel.repeat_after of each channel, or None
    None,
    HeardCap       \* bound of the history counter heard: it stays there

Pairs == Channels \X EventKeys
Attempt == [to : Pairs, at : {"way", "door"}]

VARIABLES
    now,      \* the wall clock the throttle reads
    told,     \* when each pair was last told, None if never
    telling,  \* the attempt in progress, at most one: on its way, or at the door
              \* of a receiver that has accepted it
    heard,    \* history: how often the receiving side accepted each pair
    lost      \* history: how often it did, and the attempt failed all the same

nvars == <<now, told, telling, heard, lost>>

Due(p) ==
    told[p] # None => RepeatAfter[p[1]] # None /\ now - told[p] >= RepeatAfter[p[1]]

More(n) == IF n < HeardCap THEN n + 1 ELSE n

NInit ==
    /\ now = 0
    /\ told = [p \in Pairs |-> None]
    /\ telling = None
    /\ heard = [p \in Pairs |-> 0]
    /\ lost = [p \in Pairs |-> 0]

Start(p) ==
    /\ telling = None
    /\ Due(p)
    /\ telling' = [to |-> p, at |-> "way"]
    /\ UNCHANGED <<now, told, heard, lost>>

Land ==
    /\ telling # None /\ telling.at = "way"
    /\ telling' = [telling EXCEPT !.at = "door"]
    /\ heard' = [heard EXCEPT ![telling.to] = More(@)]
    /\ UNCHANGED <<now, told, lost>>

Settle ==
    /\ telling # None /\ telling.at = "door"
    /\ told' = [told EXCEPT ![telling.to] = now]
    /\ telling' = None
    /\ UNCHANGED <<now, heard, lost>>

Fail ==
    /\ telling # None
    /\ lost' = IF telling.at = "door" THEN [lost EXCEPT ![telling.to] = @ + 1] ELSE lost
    /\ telling' = None
    /\ UNCHANGED <<now, told, heard>>

\* A new process remembers nothing.
Forget ==
    /\ told' = [p \in Pairs |-> None]
    /\ telling' = None
    /\ heard' = [p \in Pairs |-> 0]
    /\ lost' = [p \in Pairs |-> 0]
    /\ UNCHANGED now

Clock == now' = now + 1 /\ UNCHANGED <<told, telling, heard, lost>>

NNext == (\E p \in Pairs : Start(p)) \/ Land \/ Settle \/ Fail \/ Forget \/ Clock

NSpec == NInit /\ [][NNext]_nvars

----------------------------------------------------------------------------
NTypeOK ==
    /\ now \in Nat
    /\ told \in [Pairs -> Nat \cup {None}]
    /\ telling \in Attempt \cup {None}
    /\ heard \in [Pairs -> Nat]
    /\ lost \in [Pairs -> Nat]

\* "none means fire once and never again", as far as the channel can know: a
\* send-once pair is heard once, and once more for every attempt that reached
\* the receiver and still failed on the way back.
OnceUnlessLost ==
    \A p \in Pairs : RepeatAfter[p[1]] = None => heard[p] <= 1 + lost[p]
=============================================================================
