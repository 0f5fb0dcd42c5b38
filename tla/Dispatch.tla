------------------------------ MODULE Dispatch -------------------------------
(***************************************************************************)
(* Agent.dispatch of clont/agent/runner.py and AbstractChannel.send of     *)
(* clont/channels/base.py: one pass hands every event of the cycle to      *)
(* every channel, events outside and channels inside.                      *)
(*                                                                         *)
(* Delivery is a call to somebody else's server.  It may raise before the  *)
(* server accepted anything, or after (the answer timed out): the channel  *)
(* cannot tell the two apart, and stamps the key in neither case.          *)
(***************************************************************************)
EXTENDS Integers, Sequences

CONSTANTS
    ChannelCount,  \* length of Agent._channels; channel 1 is the log
    Floor,         \* min_severity of each channel, as its rank
    RepeatAfter,   \* repeat_after of each channel, or None
    Remote,        \* the channels that deliver over HTTP, and so may raise
    EventKeys,
    Batches,       \* the event lists a cycle may hand to dispatch
    None,
    MaxTime,       \* bound on the wall clock
    MaxFaults,     \* bound on failed deliveries, and on restarts
    HeardCap       \* bound of the history counter heard: it stays there

Channels == 1 .. ChannelCount
Ranks == 0 .. 2    \* events/models.py _RANK: info, warn, critical
Event == [key : EventKeys, sev : Ranks]
Pairs == Channels \X EventKeys

ASSUME CountAssumption == ChannelCount \in Nat \ {0}
ASSUME FloorAssumption == Floor \in [Channels -> Ranks]
ASSUME RepeatAssumption == RepeatAfter \in [Channels -> Nat \cup {None}]
ASSUME RemoteAssumption == Remote \subseteq Channels
ASSUME BatchesAssumption == Batches \subseteq Seq(Event)
ASSUME BoundsAssumption == MaxTime \in Nat /\ MaxFaults \in Nat /\ HeardCap \in Nat
ASSUME NoneAssumption == None \notin Nat /\ None \notin [to : Pairs, at : {"way", "door"}]

VARIABLES
    now,       \* datetime.now(UTC)
    lastSent,  \* AbstractChannel._last_sent of every channel
    events,    \* the list dispatch was given
    pos,       \* the event it is at
    chan,      \* the channel it is at
    stage,     \* idle, offer (about to call send), posting (inside _deliver),
               \* landed (still inside, and the receiver has accepted)
    faults,    \* deliveries that raised, and restarts, so far
    began,     \* history: when this pass began
    failed,    \* history: the <<event, channel>> of this pass whose send raised
    heard,     \* history: deliveries accepted, per channel and key
    lost,      \* history: those among them whose send raised all the same
    worst      \* history: the highest severity accepted, per channel and key

throttle == <<now, lastSent>>
cursor == <<events, pos, chan, stage>>
history == <<began, failed, heard, lost, worst>>
vars == <<throttle, cursor, faults, history>>

TypeOK ==
    /\ now \in Nat
    /\ lastSent \in [Pairs -> Nat \cup {None}]
    /\ events \in Seq(Event)
    /\ pos \in Nat \ {0}
    /\ chan \in Channels
    /\ stage \in {"idle", "offer", "posting", "landed"}
    /\ faults \in Nat
    /\ began \in Nat
    /\ failed \in SUBSET (Nat \X Channels)
    /\ heard \in [Pairs -> Nat]
    /\ lost \in [Pairs -> Nat]
    /\ worst \in [Pairs -> Ranks \cup {-1}]

Here == <<chan, events[pos].key>>

----------------------------------------------------------------------------
(* Faulty variants of the definitions below.                                *)

\* The stamp left by the attempt and not by the delivery.
StampAfterRaiseLeft == [lastSent EXCEPT ![Here] = now]

\* A throttle that forgets the send-once case.
ShouldSendAgain(p) ==
    lastSent[p] # None /\ RepeatAfter[p[1]] # None =>
        now - lastSent[p] >= RepeatAfter[p[1]]

\* A failing channel that takes the rest of the channels with it.
AfterRaiseSkipsEvent == <<pos + 1, 1>>

\* A stamp that is not taken.
StampNone == None

----------------------------------------------------------------------------
Init ==
    /\ now = 0
    /\ lastSent = [p \in Pairs |-> None]
    /\ events = <<>> /\ pos = 1 /\ chan = 1 /\ stage = "idle"
    /\ faults = 0
    /\ began = 0 /\ failed = {}
    /\ heard = [p \in Pairs |-> 0]
    /\ lost = [p \in Pairs |-> 0]
    /\ worst = [p \in Pairs |-> -1]

\* severity_rank(event.severity) >= severity_rank(self.min_severity)
PassesGate(e, c) == e.sev >= Floor[c]

\* AbstractChannel._should_send
ShouldSend(p) ==
    lastSent[p] # None =>
        RepeatAfter[p[1]] # None /\ now - lastSent[p] >= RepeatAfter[p[1]]

\* The stamp send leaves after _deliver has returned.
SentStamp == now

\* What send leaves in _last_sent when _deliver raises.
StampAfterRaise == lastSent

\* Where the two nested loops of dispatch go after a send, raised or not.
AfterSend == IF chan < ChannelCount THEN <<pos, chan + 1>> ELSE <<pos + 1, 1>>
AfterRaise == AfterSend

MoveTo(next) ==
    /\ pos' = next[1]
    /\ chan' = next[2]
    /\ stage' = IF next[1] <= Len(events) THEN "offer" ELSE "idle"
    /\ UNCHANGED events

\* dispatch is called with this cycle's events, local ones first.
StartPass(batch) ==
    /\ stage = "idle"
    /\ events' = batch
    /\ pos' = 1 /\ chan' = 1
    /\ stage' = IF batch = <<>> THEN "idle" ELSE "offer"
    /\ began' = now /\ failed' = {}
    /\ UNCHANGED <<throttle, faults, heard, lost, worst>>

\* send returns False: below the floor, or inside the window.
Skip ==
    /\ stage = "offer"
    /\ ~PassesGate(events[pos], chan) \/ ~ShouldSend(Here)
    /\ MoveTo(AfterSend)
    /\ UNCHANGED <<throttle, faults, history>>

Post ==
    /\ stage = "offer"
    /\ PassesGate(events[pos], chan) /\ ShouldSend(Here)
    /\ stage' = "posting"
    /\ UNCHANGED <<throttle, events, pos, chan, faults, history>>

More(n) == IF n < HeardCap THEN n + 1 ELSE n

\* The receiver accepts the delivery.
Accept ==
    /\ stage = "posting"
    /\ stage' = "landed"
    /\ heard' = [heard EXCEPT ![Here] = More(@)]
    /\ worst' = [worst EXCEPT ![Here] = IF events[pos].sev > @ THEN events[pos].sev ELSE @]
    /\ UNCHANGED <<throttle, events, pos, chan, faults, began, failed, lost>>

\* _deliver returns, send stamps the key and returns True.
Return ==
    /\ stage = "landed"
    /\ lastSent' = [lastSent EXCEPT ![Here] = SentStamp]
    /\ MoveTo(AfterSend)
    /\ UNCHANGED <<now, faults, history>>

\* _deliver raises, before or after the receiver accepted; dispatch goes on.
Raise ==
    /\ stage \in {"posting", "landed"} /\ chan \in Remote
    /\ faults < MaxFaults
    /\ faults' = faults + 1
    /\ lastSent' = StampAfterRaise
    /\ failed' = failed \cup {<<pos, chan>>}
    /\ lost' = IF stage = "landed" THEN [lost EXCEPT ![Here] = @ + 1] ELSE lost
    /\ MoveTo(AfterRaise)
    /\ UNCHANGED <<now, began, heard, worst>>

\* A new process: _last_sent is in memory ("todo persist").
Restart ==
    /\ faults < MaxFaults
    /\ faults' = faults + 1
    /\ lastSent' = [p \in Pairs |-> None]
    /\ events' = <<>> /\ pos' = 1 /\ chan' = 1 /\ stage' = "idle"
    /\ began' = now /\ failed' = {}
    /\ heard' = [p \in Pairs |-> 0]
    /\ lost' = [p \in Pairs |-> 0]
    /\ worst' = [p \in Pairs |-> -1]
    /\ UNCHANGED now

Tick ==
    /\ now < MaxTime
    /\ now' = now + 1
    /\ UNCHANGED <<lastSent, cursor, faults, history>>

Next ==
    \/ \E batch \in Batches : StartPass(batch)
    \/ Skip \/ Post \/ Accept \/ Return \/ Raise \/ Restart \/ Tick

Spec == Init /\ [][Next]_vars

\* The loop is one thread that always goes on, and a server that stays up
\* accepts what it is sent.
Loop == (\E batch \in Batches : StartPass(batch)) \/ Skip \/ Post \/ Accept \/ Return

FairSpec == Spec /\ WF_vars(Loop)

----------------------------------------------------------------------------
(* What a pass promises.                                                    *)

\* When dispatch returns, every event at or above a channel's floor was either
\* delivered to it within that channel's window, or its send raised in this
\* very pass: no event is withheld because another channel failed, another
\* event was throttled, or an earlier attempt at it was lost.
NothingWithheld ==
    stage = "idle" =>
        \A i \in 1 .. Len(events), c \in Channels :
            LET p == <<c, events[i].key>> IN
            PassesGate(events[i], c) /\ <<i, c>> \notin failed =>
                /\ lastSent[p] # None
                /\ RepeatAfter[c] # None =>
                      lastSent[p] >= began \/ began - lastSent[p] < RepeatAfter[c]

\* A channel that was told of a condition has really been told: a stamp is
\* never left by a delivery the receiver did not accept.
StampsAreEarned ==
    \A p \in Pairs : lastSent[p] # None => heard[p] > lost[p] \/ heard[p] = HeardCap

\* A send-once channel is heard once per condition and process, and once more
\* for every delivery that was accepted and still raised.
OnceUnlessLost ==
    \A p \in Pairs : RepeatAfter[p[1]] = None => heard[p] <= 1 + lost[p]

\* Every pair of a channel and a key is an independent throttle: the nested
\* loops, the gate and the failures implement the abstract Notifier.
Throttles == INSTANCE Notifier WITH
    told <- lastSent,
    telling <- IF stage = "posting" THEN [to |-> Here, at |-> "way"]
               ELSE IF stage = "landed" THEN [to |-> Here, at |-> "door"]
               ELSE None

ImplementsNotifier == Throttles!NSpec

\* A condition that every cycle reports is told to every channel whose floor
\* it reaches, as long as only finitely many deliveries fail.
StandingConditionTold ==
    \A p \in Pairs :
        (\A batch \in Batches : \E i \in DOMAIN batch :
            batch[i].key = p[2] /\ PassesGate(batch[i], p[1]))
        => []<>(heard[p] > 0)

----------------------------------------------------------------------------
(* What the documentation says, and the code does not do.                   *)

\* README "critical fires once you've actually gone over", after the warn for
\* the same budget: when a pass ends, every channel has been told of the
\* severity the condition has reached, or its send raised.
EscalationTold ==
    stage = "idle" =>
        \A i \in 1 .. Len(events), c \in Channels :
            PassesGate(events[i], c) /\ <<i, c>> \notin failed =>
                worst[<<c, events[i].key>>] >= events[i].sev

=============================================================================
