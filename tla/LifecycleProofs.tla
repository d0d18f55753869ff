-------------------------- MODULE LifecycleProofs ---------------------------
(* Proofs about Lifecycle: what awaiting the machine reports is true.        *)
EXTENDS Lifecycle, SequenceTheorems, TLAPS

\* Nothing has begun before the start.
Unstarted ==
    ~started /\ ~stopped =>
        \A c \in Workers : worker[c] = "absent" /\ lifetime[c] = "pending"

\* Whatever follows from a stop comes after one.
StopFirst ==
    /\ terminating # {} => stopped
    /\ fallback = "armed" => stopped
    /\ done # "pending" => stopped

\* A worker that failed is gone, and its error is on its way or has been heard.
CrashHeard ==
    \A c \in crashed : /\ worker[c] = "gone"
                       /\ events[c] = <<"error", "exit 1">> \/ lifetime[c] = "rejected"

\* An event has its cause.
EventsCaused ==
    \A c \in Workers :
        /\ events[c] = <<"error", "exit 1">> => c \in crashed
        /\ events[c] = <<"exit 1">> => stopped \/ c \in crashed
        /\ events[c] # <<>> => worker[c] = "gone"

\* A promise has its reason.
LifetimeTruthful ==
    \A c \in Workers :
        /\ lifetime[c] = "resolved" => worker[c] # "alive" /\ c \notin crashed
        /\ lifetime[c] = "rejected" => crashed # {}

IInv == TypeOK /\ Unstarted /\ StopFirst /\ CrashHeard /\ EventsCaused
        /\ LifetimeTruthful /\ DoneTruthful
-----------------------------------------------------------------------------
\* What the host may hear of a worker is told apart by length and first event.
LEMMA Distinct ==
    /\ <<"exit 0">> # <<>> /\ <<"exit 1">> # <<>> /\ <<"error", "exit 1">> # <<>>
    /\ <<"exit 0">> # <<"exit 1">>
    /\ <<"exit 0">> # <<"error", "exit 1">> /\ <<"exit 1">> # <<"error", "exit 1">>
<1>1. Len(<<>>) = 0 /\ Len(<<"exit 0">>) = 1 /\ Len(<<"exit 1">>) = 1 /\ Len(<<"error", "exit 1">>) = 2
  OBVIOUS
<1>2. <<"exit 0">>[1] = "exit 0" /\ <<"exit 1">>[1] = "exit 1"
  OBVIOUS
<1>3. QED
  BY <1>1, <1>2

\* The empty buffer is within the bound.
LEMMA NoBytes == 0 \in 0 .. MaxBytes
BY MaxBytesAssumption DEF MaxBytesAssumption

\* The initial states.
LEMMA InitEstablishes == Init => IInv
<1> SUFFICES ASSUME Init PROVE IInv
  OBVIOUS
<1>1. TypeOK
  <2>1. /\ worker \in [Workers -> {"absent", "alive", "gone"}]
        /\ events \in [Workers -> {<<>>, <<"exit 0">>, <<"exit 1">>, <<"error", "exit 1">>}]
        /\ lifetime \in [Workers -> {"pending", "resolved", "rejected"}]
    BY DEF Init
  <2>2. bytes \in 0 .. MaxBytes
    BY NoBytes DEF Init
  <2>3. word \in 0 .. 3 /\ level \in Requests \cup {SYSCON_REQUEST_IDLE}
    BY DEF Init, SYSCON_REQUEST_IDLE
  <2>4. QED
    BY <2>1, <2>2, <2>3 DEF Init, TypeOK
<1>2. Unstarted /\ StopFirst /\ CrashHeard /\ LifetimeTruthful /\ DoneTruthful
  BY DEF Init, Unstarted, StopFirst, CrashHeard, LifetimeTruthful, DoneTruthful
<1>3. EventsCaused
  BY Distinct DEF Init, EventsCaused
<1>4. QED
  BY <1>1, <1>2, <1>3 DEF IInv

\* Emulator.stop keeps the types, settles only promises without a worker, and stops.
LEMMA StopKeeps ==
    ASSUME IInv, NEW watching \in {"off", "load", "park", "parked", "poweroff", "reboot", "idle"},
           StopEmulator(watching)
    PROVE  /\ stopped'
           /\ lifetime' \in [Workers -> {"pending", "resolved", "rejected"}]
           /\ \A c \in Workers : \/ lifetime'[c] = lifetime[c]
                                 \/ worker[c] = "absent" /\ lifetime'[c] = "resolved"
           /\ terminating' \subseteq Workers
           /\ fallback' \in {"off", "armed", "fired", "cleared"}
           /\ message' \in {"none", "sent", "seen"}
           /\ word' \in 0 .. 3
           /\ watch' \in {"off", "load", "park", "parked", "poweroff", "reboot", "idle"}
<1>1. CASE stopped
  BY <1>1 DEF StopEmulator, IInv, TypeOK
<1>2. CASE ~stopped
  <2>1. stopped' /\ word' = CancelWord(word) /\ watch' = CancelNotify(watching)
        /\ StopHandles(worker) /\ ArmFallback
    BY <1>2 DEF StopEmulator
  <2>2. word' \in 0 .. 3
    <3>1. word \in 0 .. 3
      BY DEF IInv, TypeOK
    <3>2. CancelWord(word) \in {SYSCON_REQUEST_STOPPED, word}
      BY DEF CancelWord
    <3>3. QED
      BY <2>1, <3>1, <3>2 DEF SYSCON_REQUEST_STOPPED
  <2>3. watch' \in {"off", "load", "park", "parked", "poweroff", "reboot", "idle"}
    BY <2>1 DEF CancelNotify
  <2>4. fallback' \in {"off", "armed", "fired", "cleared"}
    BY <2>1 DEF ArmFallback, IInv, TypeOK
  <2>5. message' \in {"none", "sent", "seen"}
    BY <2>1 DEF StopHandles, IInv, TypeOK
  <2>6. terminating' \subseteq Workers
    BY <2>1 DEF StopHandles, IInv, TypeOK, Workers
  <2>7. /\ lifetime' \in [Workers -> {"pending", "resolved", "rejected"}]
        /\ \A c \in Workers : \/ lifetime'[c] = lifetime[c]
                              \/ worker[c] = "absent" /\ lifetime'[c] = "resolved"
    BY <2>1 DEF StopHandles, IInv, TypeOK
  <2>8. QED
    BY <2>1, <2>2, <2>3, <2>4, <2>5, <2>6, <2>7
<1>3. QED
  BY <1>1, <1>2

\* A step that stops the machine, and changes nothing of the workers, keeps the invariant.
LEMMA StoppingKeeps ==
    ASSUME IInv, NEW watching \in {"off", "load", "park", "parked", "poweroff", "reboot", "idle"},
           StopEmulator(watching), done' \in {"pending", "resolved", "rejected"}, DoneTruthful',
           UNCHANGED <<started, worker, events, level, hart, termVars, crashed>>
    PROVE  IInv'
<1>1. TypeOK'
  BY StopKeeps DEF IInv, TypeOK, termVars
<1>2. Unstarted' /\ StopFirst' /\ CrashHeard' /\ EventsCaused' /\ LifetimeTruthful'
  BY StopKeeps DEF IInv, TypeOK, Unstarted, StopFirst, CrashHeard, EventsCaused, LifetimeTruthful,
     termVars
<1>3. QED
  BY <1>1, <1>2 DEF IInv

\* A step that leaves the host, the workers and their events alone keeps all but the types.
LEMMA LocalKeeps ==
    ASSUME IInv, UNCHANGED workerFrame, TypeOK'
    PROVE  IInv'
BY DEF IInv, workerFrame, hostVars, Unstarted, StopFirst, CrashHeard, EventsCaused,
   LifetimeTruthful, DoneTruthful

\* The end of a worker: it was alive, so nothing had been heard of it.
LEMMA EndKeeps ==
    ASSUME IInv, NEW c \in Workers, Alive(c),
           NEW es \in {<<"exit 0">>, <<"exit 1">>, <<"error", "exit 1">>}, Ends(c, es),
           \/ crashed' = crashed /\ (es = <<"exit 0">> \/ (es = <<"exit 1">> /\ stopped))
           \/ crashed' = crashed \cup {c} /\ es = <<"error", "exit 1">>
    PROVE  IInv'
<1>1. es # <<>>
  BY Distinct
<1>2. TypeOK'
  <2>1. worker' \in [Workers -> {"absent", "alive", "gone"}]
        /\ events' \in [Workers -> {<<>>, <<"exit 0">>, <<"exit 1">>, <<"error", "exit 1">>}]
    BY DEF Ends, IInv, TypeOK
  <2>2. hart' \in {"idle", "locked", "exchange", "notify"}
        /\ level' \in Requests \cup {SYSCON_REQUEST_IDLE}
    <3>1. CASE c = "cpu"
      BY <3>1 DEF Ends, SYSCON_REQUEST_IDLE
    <3>2. CASE c # "cpu"
      BY <3>2 DEF Ends, IInv, TypeOK
    <3>3. QED
      BY <3>1, <3>2
  <2>3. /\ pump' \in {"loop", "acquire", "locked"} /\ stalled' \in BOOLEAN
        /\ message' \in {"none", "sent", "seen"} /\ bytes' \in 0 .. MaxBytes
    <3>1. CASE c = "terminal"
      <4>1. pump' = "loop" /\ bytes' = 0 /\ stalled' = FALSE /\ message' = "none"
        BY <3>1 DEF Ends
      <4>2. 0 \in 0 .. MaxBytes
        BY NoBytes
      <4>3. QED
        BY <4>1, <4>2
    <3>2. CASE c # "terminal"
      <4>1. UNCHANGED <<pump, bytes, stalled, message>>
        BY <3>2 DEF Ends
      <4>2. TypeOK
        BY DEF IInv
      <4>3. QED
        BY <4>1, <4>2, ZenonT(30) DEF TypeOK
    <3>3. QED
      BY <3>1, <3>2
  <2>4. crashed' \subseteq Workers
    BY DEF IInv, TypeOK
  <2>5. UNCHANGED <<started, stopped, terminating, lifetime, done, fallback, word, watch, lock>>
    BY DEF Ends, hostVars
  <2>6. TypeOK
    BY DEF IInv
  <2>7. /\ started' \in BOOLEAN /\ stopped' \in BOOLEAN /\ terminating' \subseteq Workers
        /\ lifetime' \in [Workers -> {"pending", "resolved", "rejected"}]
        /\ done' \in {"pending", "resolved", "rejected"}
        /\ fallback' \in {"off", "armed", "fired", "cleared"}
    BY <2>5, <2>6, ZenonT(30) DEF TypeOK
  <2>8. /\ word' \in 0 .. 3 /\ lock' \in {"free", "cpu", "terminal"}
        /\ watch' \in {"off", "load", "park", "parked", "poweroff", "reboot", "idle"}
    BY <2>5, <2>6, ZenonT(30) DEF TypeOK
  <2>9. QED
    BY <2>1, <2>2, <2>3, <2>4, <2>7, <2>8 DEF TypeOK
<1>3. \A d \in Workers : /\ worker'[d] = IF d = c THEN "gone" ELSE worker[d]
                         /\ events'[d] = IF d = c THEN es ELSE events[d]
  BY DEF Ends, IInv, TypeOK
<1>4. UNCHANGED hostVars
  BY DEF Ends
<1>5. worker[c] = "alive" /\ c \notin crashed /\ (started \/ stopped)
  BY DEF Alive, IInv, CrashHeard, Unstarted
<1>6. Unstarted' /\ StopFirst'
  BY <1>4, <1>5 DEF hostVars, IInv, Unstarted, StopFirst
<1>7. CrashHeard'
  BY <1>1, <1>3, <1>4, <1>5, Distinct DEF hostVars, IInv, TypeOK, CrashHeard
<1>8. EventsCaused'
  BY <1>1, <1>3, <1>4, <1>5, Distinct DEF hostVars, IInv, EventsCaused
<1>9. LifetimeTruthful'
  BY <1>3, <1>4, <1>5 DEF hostVars, IInv, LifetimeTruthful
<1>10. DoneTruthful'
  BY <1>3, <1>4, <1>5 DEF hostVars, IInv, DoneTruthful
<1>11. QED
  BY <1>2, <1>6, <1>7, <1>8, <1>9, <1>10 DEF IInv
-----------------------------------------------------------------------------
\* What follows the first of two is the second.
LEMMA TailOfTwo ==
    ASSUME NEW S, NEW s \in Seq(S), NEW u \in Seq(S), Len(s) = 2, Len(u) = 1, s[2] = u[1]
    PROVE  Tail(s) = u
<1>1. s # <<>>
  OBVIOUS
<1>2. Tail(s) \in Seq(S) /\ Len(Tail(s)) = 1
  BY <1>1
<1>3. Tail(s)[1] = s[2]
  BY <1>1
<1>4. ASSUME NEW i \in 1 .. Len(Tail(s)) PROVE Tail(s)[i] = u[i]
  <2>1. i \in 1 .. 1
    BY <1>2, <1>4, Zenon
  <2>2. i = 1
    BY <2>1
  <2>3. QED
    BY <2>2, <1>3
<1>5. QED
  BY <1>2, <1>4, SeqEqual

\* What the host hears first and what is left after it.
LEMMA HeadsAndTails ==
    /\ Head(<<"exit 0">>) = "exit 0" /\ Head(<<"exit 1">>) = "exit 1"
    /\ Head(<<"error", "exit 1">>) = "error"
    /\ Tail(<<"exit 0">>) = <<>> /\ Tail(<<"exit 1">>) = <<>>
    /\ Tail(<<"error", "exit 1">>) = <<"exit 1">>
<1>1. /\ Head(<<"exit 0">>) = "exit 0" /\ Head(<<"exit 1">>) = "exit 1"
      /\ Head(<<"error", "exit 1">>) = "error"
  OBVIOUS
<1>2. Tail(<<"exit 0">>) = <<>> /\ Tail(<<"exit 1">>) = <<>>
  OBVIOUS
<1>3. Tail(<<"error", "exit 1">>) = <<"exit 1">>
  <2> DEFINE S == {"error", "exit 1"}
  <2>1. /\ <<"error", "exit 1">> \in Seq(S) /\ Len(<<"error", "exit 1">>) = 2
        /\ <<"error", "exit 1">>[2] = "exit 1"
    OBVIOUS
  <2>2. <<"exit 1">> \in Seq(S) /\ Len(<<"exit 1">>) = 1 /\ <<"exit 1">>[1] = "exit 1"
    OBVIOUS
  <2>3. QED
    BY TailOfTwo, <2>1, <2>2
<1>4. QED
  BY <1>1, <1>2, <1>3

\* Before the start no worker has been heard of or has failed.
LEMMA Quiet ==
    ASSUME IInv, ~started, ~stopped
    PROVE  /\ crashed = {} /\ done = "pending" /\ terminating = {}
           /\ \A c \in Workers : events[c] = <<>> /\ lifetime[c] = "pending"
BY DEF IInv, TypeOK, Unstarted, StopFirst, CrashHeard, EventsCaused

\* Start finds nothing begun and leaves nothing settled.
LEMMA StartKeeps == IInv /\ Start => IInv'
<1> SUFFICES ASSUME IInv, Start PROVE IInv'
  OBVIOUS
<1>1. /\ crashed = {} /\ done = "pending" /\ terminating = {}
      /\ \A c \in Workers : events[c] = <<>> /\ lifetime[c] = "pending"
  BY Quiet DEF Start
<1>2. started' /\ worker' = [c \in Workers |-> "alive"]
  BY DEF Start
<1>3. UNCHANGED <<stopped, stalled, terminating, crashed, events, lifetime, done, fallback,
                  message, word, level, hart, pump, bytes, lock>>
  BY DEF Start, termVars
<1>4. TypeOK'
  <2>1. worker' \in [Workers -> {"absent", "alive", "gone"}]
    BY <1>2
  <2>2. started' \in BOOLEAN /\ watch' \in {"off", "load", "park", "parked", "poweroff", "reboot", "idle"}
    BY DEF Start
  <2>3. TypeOK
    BY DEF IInv
  <2>4. QED
    BY <1>3, <2>1, <2>2, <2>3, ZenonT(60) DEF TypeOK
<1>5. Unstarted' /\ StopFirst'
  BY <1>2, <1>3 DEF IInv, Unstarted, StopFirst
<1>6. CrashHeard' /\ EventsCaused' /\ LifetimeTruthful' /\ DoneTruthful'
  BY <1>1, <1>3, Distinct DEF CrashHeard, EventsCaused, LifetimeTruthful, DoneTruthful
<1>7. QED
  BY <1>4, <1>5, <1>6 DEF IInv

\* A failed start stops what it began and settles what it did not.
LEMMA StartFailsKeeps == ASSUME NEW n \in 1 .. 3, IInv, StartFails(n) PROVE IInv'
<1> DEFINE begun == [c \in Workers |-> IF \E i \in 1 .. n - 1 : StartOrder[i] = c
                                       THEN "alive" ELSE "absent"]
<1>1. /\ crashed = {} /\ done = "pending" /\ terminating = {}
      /\ \A c \in Workers : events[c] = <<>> /\ lifetime[c] = "pending"
  BY Quiet DEF StartFails
<1>2. worker' = begun /\ StopHandles(begun) /\ stopped'
  BY DEF StartFails
<1>3. UNCHANGED <<started, stalled, crashed, events, done, fallback, word, level, hart, watch,
                  pump, bytes, lock>>
  BY DEF StartFails, sysconVars, termVars
<1>4. \A c \in Workers : begun[c] \in {"absent", "alive"}
  OBVIOUS
<1> HIDE DEF begun
<1>5. \A c \in Workers : lifetime'[c] = "resolved" => worker'[c] = "absent"
  BY <1>1, <1>2, <1>4 DEF StopHandles
<1>6. \A c \in Workers : lifetime'[c] # "rejected"
  BY <1>1, <1>2, <1>4 DEF StopHandles
<1>7. TypeOK'
  <2>1. worker' \in [Workers -> {"absent", "alive", "gone"}]
    BY <1>2 DEF begun
  <2>2. /\ lifetime' \in [Workers -> {"pending", "resolved", "rejected"}]
        /\ message' \in {"none", "sent", "seen"}
    BY <1>2 DEF StopHandles, IInv, TypeOK
  <2>3. terminating' \subseteq Workers
    <3>1. terminating' = {} \cup {d \in {"cpu", "timer"} : begun[d] # "absent"}
      BY <1>1, <1>2 DEF StopHandles
    <3>2. QED
      BY <3>1 DEF Workers
  <2>4. stopped' \in BOOLEAN
    BY DEF StartFails
  <2>5. TypeOK
    BY DEF IInv
  <2>6. /\ started' \in BOOLEAN /\ stalled' \in BOOLEAN /\ crashed' \subseteq Workers
        /\ events' \in [Workers -> {<<>>, <<"exit 0">>, <<"exit 1">>, <<"error", "exit 1">>}]
        /\ done' \in {"pending", "resolved", "rejected"}
        /\ fallback' \in {"off", "armed", "fired", "cleared"}
    BY <1>3, <2>5, ZenonT(30) DEF TypeOK
  <2>7. /\ word' \in 0 .. 3 /\ level' \in Requests \cup {SYSCON_REQUEST_IDLE}
        /\ hart' \in {"idle", "locked", "exchange", "notify"}
        /\ watch' \in {"off", "load", "park", "parked", "poweroff", "reboot", "idle"}
        /\ pump' \in {"loop", "acquire", "locked"} /\ bytes' \in 0 .. MaxBytes
        /\ lock' \in {"free", "cpu", "terminal"}
    BY <1>3, <2>5, ZenonT(30) DEF TypeOK
  <2>8. QED
    BY <2>1, <2>2, <2>3, <2>4, <2>6, <2>7 DEF TypeOK
<1>8. Unstarted' /\ StopFirst'
  BY <1>2, <1>3 DEF Unstarted, StopFirst
<1>9. CrashHeard' /\ EventsCaused' /\ LifetimeTruthful' /\ DoneTruthful'
  BY <1>1, <1>3, <1>5, <1>6, Distinct DEF CrashHeard, EventsCaused, LifetimeTruthful, DoneTruthful
<1>10. QED
  BY <1>7, <1>8, <1>9 DEF IInv

\* What an event that is handled leaves of the types.
LEMMA HearTypes ==
    ASSUME IInv, NEW c \in Workers, events[c] # <<>>,
           NEW outcome \in {"resolved", "rejected"},
           events' = [events EXCEPT ![c] = Tail(@)], Settle(c, outcome),
           fallback' \in {"off", "armed", "fired", "cleared"},
           UNCHANGED <<started, stopped, terminating, done, worker, message,
                       sysconVars, termVars, crashed>>
    PROVE  TypeOK'
<1>1. TypeOK
  BY DEF IInv
<1>2. events' \in [Workers -> {<<>>, <<"exit 0">>, <<"exit 1">>, <<"error", "exit 1">>}]
  <2>1. events[c] \in {<<"exit 0">>, <<"exit 1">>, <<"error", "exit 1">>}
    BY <1>1 DEF TypeOK
  <2>2. Tail(events[c]) \in {<<>>, <<"exit 0">>, <<"exit 1">>, <<"error", "exit 1">>}
    BY <2>1, HeadsAndTails
  <2>3. QED
    BY <1>1, <2>2 DEF TypeOK
<1>3. lifetime' \in [Workers -> {"pending", "resolved", "rejected"}]
  BY <1>1 DEF Settle, TypeOK
<1>4. UNCHANGED <<started, stopped, stalled, terminating, done, worker, message, crashed,
                  word, level, hart, watch, pump, bytes, lock>>
  BY DEF sysconVars, termVars
<1>5. /\ started' \in BOOLEAN /\ stopped' \in BOOLEAN /\ stalled' \in BOOLEAN
      /\ worker' \in [Workers -> {"absent", "alive", "gone"}]
      /\ terminating' \subseteq Workers /\ crashed' \subseteq Workers
      /\ done' \in {"pending", "resolved", "rejected"} /\ message' \in {"none", "sent", "seen"}
  BY <1>1, <1>4, ZenonT(30) DEF TypeOK
<1>6. /\ word' \in 0 .. 3 /\ level' \in Requests \cup {SYSCON_REQUEST_IDLE}
      /\ hart' \in {"idle", "locked", "exchange", "notify"}
      /\ watch' \in {"off", "load", "park", "parked", "poweroff", "reboot", "idle"}
      /\ pump' \in {"loop", "acquire", "locked"} /\ bytes' \in 0 .. MaxBytes
      /\ lock' \in {"free", "cpu", "terminal"}
  BY <1>1, <1>4, ZenonT(30) DEF TypeOK
<1>7. QED
  BY <1>2, <1>3, <1>5, <1>6 DEF TypeOK

\* An error is heard only of a worker that failed, and leaves its exit to be heard.
LEMMA HearErrorKeeps == ASSUME NEW c \in Workers, IInv, HearError(c) PROVE IInv'
<1>1. /\ events[c] # <<>> /\ Head(events[c]) = "error"
      /\ events' = [events EXCEPT ![c] = Tail(@)] /\ Settle(c, "rejected")
      /\ UNCHANGED <<started, stopped, terminating, done, fallback, worker, message,
                     sysconVars, termVars, crashed>>
  BY DEF HearError
<1>2. events[c] = <<"error", "exit 1">>
  <2>1. events[c] \in {<<"exit 0">>, <<"exit 1">>, <<"error", "exit 1">>}
    BY <1>1 DEF IInv, TypeOK
  <2>2. QED
    BY <1>1, <2>1, HeadsAndTails
<1>3. c \in crashed /\ worker[c] = "gone" /\ lifetime[c] # "resolved"
  BY <1>2 DEF IInv, EventsCaused, CrashHeard, LifetimeTruthful
<1>4. TypeOK'
  BY <1>1, HearTypes DEF IInv, TypeOK
<1>5. \A d \in Workers : events'[d] = IF d = c THEN <<"exit 1">> ELSE events[d]
  BY <1>1, <1>2, HeadsAndTails DEF IInv, TypeOK
<1>6. \A d \in Workers : lifetime'[d] = IF d = c THEN "rejected" ELSE lifetime[d]
  BY <1>1, <1>3 DEF Settle, IInv, TypeOK
<1>7. Unstarted' /\ StopFirst'
  BY <1>1, <1>3, <1>6 DEF IInv, Unstarted, StopFirst
<1>8. CrashHeard'
  BY <1>1, <1>5, <1>6 DEF IInv, TypeOK, CrashHeard
<1>9. EventsCaused'
  BY <1>1, <1>3, <1>5, Distinct DEF IInv, EventsCaused
<1>10. LifetimeTruthful' /\ DoneTruthful'
  BY <1>1, <1>3, <1>6 DEF IInv, LifetimeTruthful, DoneTruthful
<1>11. QED
  BY <1>4, <1>7, <1>8, <1>9, <1>10 DEF IInv

\* An exit settles a promise only as the worker's end deserves.
LEMMA HearExitKeeps == ASSUME NEW c \in Workers, IInv, HearExit(c) PROVE IInv'
<1>1. /\ events[c] # <<>> /\ Head(events[c]) # "error"
      /\ events' = [events EXCEPT ![c] = Tail(@)] /\ Settle(c, ExitOutcome(c))
      /\ fallback' = IF c = "terminal" /\ fallback = "armed" THEN "cleared" ELSE fallback
      /\ UNCHANGED <<started, stopped, terminating, done, worker, message,
                     sysconVars, termVars, crashed>>
  BY DEF HearExit
<1>2. events[c] \in {<<"exit 0">>, <<"exit 1">>}
  <2>1. events[c] \in {<<"exit 0">>, <<"exit 1">>, <<"error", "exit 1">>}
    BY <1>1 DEF IInv, TypeOK
  <2>2. QED
    BY <1>1, <2>1, HeadsAndTails
<1>3. worker[c] = "gone" /\ (c \in crashed => lifetime[c] = "rejected")
  BY <1>1, <1>2, Distinct DEF IInv, EventsCaused, CrashHeard
<1>4. \E outcome \in {"resolved", "rejected"} : outcome = ExitOutcome(c)
  BY DEF ExitOutcome
<1>5. PICK outcome \in {"resolved", "rejected"} : outcome = ExitOutcome(c)
  BY <1>4
<1>6. Settle(c, outcome) /\ (outcome = "rejected" => crashed # {})
  <2>1. Settle(c, outcome)
    BY <1>1, <1>5 DEF Settle
  <2>2. ASSUME outcome = "rejected" PROVE crashed # {}
    <3>1. ~stopped /\ Head(events[c]) # "exit 0"
      BY <1>5, <2>2 DEF ExitOutcome
    <3>2. events[c] = <<"exit 1">>
      BY <1>2, <3>1, HeadsAndTails
    <3>3. QED
      BY <3>1, <3>2 DEF IInv, EventsCaused
  <2>3. QED
    BY <2>1, <2>2
<1>7. TypeOK'
  <2>1. fallback' \in {"off", "armed", "fired", "cleared"}
    BY <1>1 DEF IInv, TypeOK
  <2>2. QED
    BY <1>1, <1>6, <2>1, HearTypes
<1>8. \A d \in Workers : events'[d] = IF d = c THEN <<>> ELSE events[d]
  BY <1>1, <1>2, HeadsAndTails DEF IInv, TypeOK
<1>9. \A d \in Workers :
        lifetime'[d] = IF d = c /\ lifetime[c] = "pending" THEN outcome ELSE lifetime[d]
  BY <1>6 DEF Settle, IInv, TypeOK
<1>10. fallback' = "armed" => fallback = "armed"
  BY <1>1
<1>11. Unstarted' /\ StopFirst'
  BY <1>1, <1>3, <1>9, <1>10 DEF IInv, Unstarted, StopFirst
<1>12. CrashHeard'
  BY <1>1, <1>3, <1>8, <1>9 DEF IInv, TypeOK, CrashHeard
<1>13. EventsCaused'
  BY <1>1, <1>8, Distinct DEF IInv, EventsCaused
<1>14. LifetimeTruthful'
  BY <1>1, <1>3, <1>6, <1>9 DEF IInv, LifetimeTruthful
<1>15. DoneTruthful'
  BY <1>1 DEF IInv, DoneTruthful
<1>16. QED
  BY <1>7, <1>11, <1>12, <1>13, <1>14, <1>15 DEF IInv

\* The terminate timer fires only after a stop.
LEMMA FallbackKeeps == IInv /\ FallbackFires => IInv'
<1> SUFFICES ASSUME IInv, FallbackFires PROVE IInv'
  OBVIOUS
<1>1. /\ stopped /\ fallback' = "fired" /\ terminating' = terminating \cup {"terminal"}
      /\ UNCHANGED <<started, stopped, stalled, lifetime, done, worker, events, message, crashed,
                     word, level, hart, watch, pump, bytes, lock>>
  BY DEF FallbackFires, sysconVars, termVars, IInv, StopFirst
<1>2. TypeOK'
  <2>1. TypeOK
    BY DEF IInv
  <2>2. terminating' \subseteq Workers
    BY <1>1, <2>1 DEF TypeOK, Workers
  <2>3. /\ started' \in BOOLEAN /\ stopped' \in BOOLEAN /\ stalled' \in BOOLEAN
        /\ worker' \in [Workers -> {"absent", "alive", "gone"}] /\ crashed' \subseteq Workers
        /\ lifetime' \in [Workers -> {"pending", "resolved", "rejected"}]
        /\ events' \in [Workers -> {<<>>, <<"exit 0">>, <<"exit 1">>, <<"error", "exit 1">>}]
        /\ done' \in {"pending", "resolved", "rejected"} /\ message' \in {"none", "sent", "seen"}
    BY <1>1, <2>1, ZenonT(30) DEF TypeOK
  <2>4. /\ word' \in 0 .. 3 /\ level' \in Requests \cup {SYSCON_REQUEST_IDLE}
        /\ hart' \in {"idle", "locked", "exchange", "notify"}
        /\ watch' \in {"off", "load", "park", "parked", "poweroff", "reboot", "idle"}
        /\ pump' \in {"loop", "acquire", "locked"} /\ bytes' \in 0 .. MaxBytes
        /\ lock' \in {"free", "cpu", "terminal"}
    BY <1>1, <2>1, ZenonT(30) DEF TypeOK
  <2>5. QED
    BY <1>1, <2>2, <2>3, <2>4 DEF TypeOK
<1>3. Unstarted' /\ StopFirst' /\ CrashHeard' /\ EventsCaused' /\ LifetimeTruthful' /\ DoneTruthful'
  BY <1>1 DEF IInv, Unstarted, StopFirst, CrashHeard, EventsCaused, LifetimeTruthful, DoneTruthful
<1>4. QED
  BY <1>2, <1>3 DEF IInv

\* stop() keeps the invariant.
LEMMA StopByHostKeeps == IInv /\ Stop => IInv'
<1> SUFFICES ASSUME IInv, Stop PROVE IInv'
  OBVIOUS
<1>1. PICK w \in {"off", "load", "park", "parked", "poweroff", "reboot", "idle"} : w = watch
  BY DEF IInv, TypeOK
<1>2. StopEmulator(w)
  BY <1>1 DEF Stop, StopEmulator, CancelNotify
<1>3. /\ UNCHANGED <<started, worker, events, level, hart, termVars, crashed>>
      /\ done' \in {"pending", "resolved", "rejected"} /\ DoneTruthful'
  BY DEF Stop, IInv, TypeOK, DoneTruthful
<1>4. QED
  BY <1>2, <1>3, StoppingKeeps

\* The machine's promise settles as those of its handles did.
LEMMA FinishKeeps == IInv /\ Finish => IInv'
<1> SUFFICES ASSUME IInv, Finish PROVE IInv'
  OBVIOUS
<1>1. PICK w \in {"off", "load", "park", "parked", "poweroff", "reboot", "idle"} : w = watch
  BY DEF IInv, TypeOK
<1>2. StopEmulator(w)
  BY <1>1 DEF Finish, StopEmulator, CancelNotify
<1>3. UNCHANGED <<started, worker, events, level, hart, termVars, crashed>>
  BY DEF Finish
<1>4. done' \in {"pending", "resolved", "rejected"} /\ DoneTruthful'
  <2>1. CASE \E c \in Workers : lifetime[c] = "rejected"
    <3>1. done' = "rejected" /\ crashed # {}
      BY <2>1 DEF Finish, IInv, LifetimeTruthful
    <3>2. QED
      BY <1>3, <3>1 DEF DoneTruthful
  <2>2. CASE ~\E c \in Workers : lifetime[c] = "rejected"
    <3>1. done' = "resolved" /\ \A c \in Workers : lifetime[c] = "resolved"
      BY <2>2 DEF Finish
    <3>2. \A c \in Workers : worker[c] # "alive" /\ c \notin crashed
      BY <3>1 DEF IInv, LifetimeTruthful
    <3>3. QED
      BY <1>3, <3>1, <3>2 DEF DoneTruthful
  <2>3. QED
    BY <2>1, <2>2
<1>5. QED
  BY <1>2, <1>3, <1>4, StoppingKeeps

\* What the watch finds may stop the machine, and otherwise moves only the watch.
LEMMA WatchLoadKeeps == IInv /\ WatchLoad => IInv'
<1> SUFFICES ASSUME IInv, WatchLoad PROVE IInv'
  OBVIOUS
<1>1. UNCHANGED <<started, worker, events, done, level, hart, termVars, crashed>>
  BY DEF WatchLoad
<1>2. CASE word \in Requests
  <2>1. done' \in {"pending", "resolved", "rejected"} /\ DoneTruthful'
    BY <1>1 DEF IInv, TypeOK, DoneTruthful
  <2>2. CASE word = SYSCON_REQUEST_POWEROFF
    <3>1. StopEmulator("poweroff")
      BY <1>2, <2>2 DEF WatchLoad, Requests, SYSCON_REQUEST_POWEROFF, SYSCON_REQUEST_REBOOT,
         SYSCON_REQUEST_STOPPED
    <3>2. QED
      BY <1>1, <2>1, <3>1, StoppingKeeps
  <2>3. CASE word # SYSCON_REQUEST_POWEROFF
    <3>1. StopEmulator("reboot")
      BY <1>2, <2>3 DEF WatchLoad, Requests, SYSCON_REQUEST_POWEROFF, SYSCON_REQUEST_REBOOT,
         SYSCON_REQUEST_STOPPED
    <3>2. QED
      BY <1>1, <2>1, <3>1, StoppingKeeps
  <2>4. QED
    BY <2>2, <2>3
<1>3. CASE word \notin Requests
  <2>1. /\ watch' \in {"idle", "park"}
        /\ UNCHANGED <<stopped, terminating, lifetime, message, fallback, word>>
    BY <1>3 DEF WatchLoad
  <2>2. UNCHANGED workerFrame
    BY <1>1, <2>1 DEF workerFrame, hostVars
  <2>3. TypeOK'
    <3>1. /\ UNCHANGED <<started, stopped, stalled, worker, terminating, crashed, events, lifetime>>
          /\ UNCHANGED <<done, fallback, message, word, level, hart, pump, bytes, lock>>
      BY <1>1, <2>1 DEF termVars
    <3>2. TypeOK
      BY DEF IInv
    <3>3. watch' \in {"off", "load", "park", "parked", "poweroff", "reboot", "idle"}
      BY <2>1
    <3>4. /\ started' \in BOOLEAN /\ stopped' \in BOOLEAN /\ stalled' \in BOOLEAN
          /\ worker' \in [Workers -> {"absent", "alive", "gone"}]
          /\ terminating' \subseteq Workers /\ crashed' \subseteq Workers
          /\ lifetime' \in [Workers -> {"pending", "resolved", "rejected"}]
          /\ events' \in [Workers -> {<<>>, <<"exit 0">>, <<"exit 1">>, <<"error", "exit 1">>}]
      BY <3>1, <3>2, ZenonT(30) DEF TypeOK
    <3>5. /\ done' \in {"pending", "resolved", "rejected"}
          /\ fallback' \in {"off", "armed", "fired", "cleared"}
          /\ message' \in {"none", "sent", "seen"}
          /\ word' \in 0 .. 3 /\ level' \in Requests \cup {SYSCON_REQUEST_IDLE}
          /\ hart' \in {"idle", "locked", "exchange", "notify"}
          /\ pump' \in {"loop", "acquire", "locked"} /\ bytes' \in 0 .. MaxBytes
          /\ lock' \in {"free", "cpu", "terminal"}
      BY <3>1, <3>2, ZenonT(30) DEF TypeOK
    <3>6. QED
      BY <3>3, <3>4, <3>5 DEF TypeOK
  <2>4. QED
    BY <2>2, <2>3, LocalKeeps
<1>4. QED
  BY <1>2, <1>3
-----------------------------------------------------------------------------
\* The types of what the workers and the watch change among themselves.
LocalTyped ==
    /\ message \in {"none", "sent", "seen"} /\ stalled \in BOOLEAN
    /\ word \in 0 .. 3 /\ level \in Requests \cup {SYSCON_REQUEST_IDLE}
    /\ hart \in {"idle", "locked", "exchange", "notify"}
    /\ watch \in {"off", "load", "park", "parked", "poweroff", "reboot", "idle"}
    /\ pump \in {"loop", "acquire", "locked"} /\ bytes \in 0 .. MaxBytes
    /\ lock \in {"free", "cpu", "terminal"}

\* The types follow from those of what a local step changes.
LEMMA LocalTypes == ASSUME IInv, UNCHANGED workerFrame, LocalTyped' PROVE IInv'
<1>1. UNCHANGED <<started, stopped, terminating, lifetime, done, fallback, worker, events, crashed>>
  BY DEF workerFrame, hostVars
<1>2. TypeOK
  BY DEF IInv
<1>3. /\ started' \in BOOLEAN /\ stopped' \in BOOLEAN
      /\ worker' \in [Workers -> {"absent", "alive", "gone"}]
      /\ terminating' \subseteq Workers /\ crashed' \subseteq Workers
      /\ lifetime' \in [Workers -> {"pending", "resolved", "rejected"}]
      /\ events' \in [Workers -> {<<>>, <<"exit 0">>, <<"exit 1">>, <<"error", "exit 1">>}]
      /\ done' \in {"pending", "resolved", "rejected"}
      /\ fallback' \in {"off", "armed", "fired", "cleared"}
  BY <1>1, <1>2, ZenonT(30) DEF TypeOK
<1>4. TypeOK'
  BY <1>3 DEF TypeOK, LocalTyped
<1>5. QED
  BY <1>4, LocalKeeps

\* The steps of the hart.
LEMMA HartKeeps == IInv /\ HartStep => IInv'
<1> SUFFICES ASSUME IInv, HartStep PROVE LocalTyped' /\ UNCHANGED workerFrame
  BY LocalTypes
<1>1. LocalTyped
  BY DEF IInv, TypeOK, LocalTyped
<1> USE <1>1 DEF termVars, sysconVars
<1>2. ASSUME NEW regs \in SUBSET Requests, GuestStore(regs) PROVE LocalTyped' /\ UNCHANGED workerFrame
  <2>1. level' \in Requests \cup {SYSCON_REQUEST_IDLE}
    BY <1>2 DEF GuestStore, RequestLevel, Requests
  <2>2. hart' = "exchange" /\ UNCHANGED <<message, stalled, word, watch, pump, bytes, lock>>
    BY <1>2 DEF GuestStore
  <2>3. UNCHANGED workerFrame
    BY <1>2 DEF GuestStore
  <2>4. QED
    BY <2>1, <2>2, <2>3 DEF LocalTyped
<1>3. CASE Exchange
  <2>1. word' = level /\ level' = SYSCON_REQUEST_IDLE /\ hart' \in {"idle", "notify"}
        /\ UNCHANGED <<message, stalled, watch, pump, bytes, lock>>
    BY <1>3 DEF Exchange
  <2>2. level \in 0 .. 3
    BY DEF LocalTyped, Requests, SYSCON_REQUEST_IDLE, SYSCON_REQUEST_POWEROFF, SYSCON_REQUEST_REBOOT
  <2>3. UNCHANGED workerFrame
    BY <1>3 DEF Exchange
  <2>4. QED
    BY <2>1, <2>2, <2>3 DEF LocalTyped
<1>4. CASE Notify
  <2>1. /\ watch' \in {"load", watch} /\ hart' = "idle" /\ UNCHANGED workerFrame
        /\ UNCHANGED <<message, stalled, word, level, pump, bytes, lock>>
    BY <1>4 DEF Notify
  <2>2. QED
    BY <2>1 DEF LocalTyped
<1>5. CASE GuestPrints
  <2>1. /\ bytes < MaxBytes /\ bytes' = bytes + 1 /\ UNCHANGED workerFrame
        /\ UNCHANGED <<message, stalled, word, level, hart, watch, pump, lock>>
    BY <1>5 DEF GuestPrints
  <2>2. bytes' \in 0 .. MaxBytes
    BY <2>1, MaxBytesAssumption DEF LocalTyped, MaxBytesAssumption
  <2>3. QED
    BY <2>1, <2>2 DEF LocalTyped
<1>6. CASE HartAcquires
  BY <1>6 DEF HartAcquires, LocalTyped
<1>7. CASE HartReleases
  BY <1>7 DEF HartReleases, LocalTyped
<1>8. QED
  BY <1>2, <1>3, <1>4, <1>5, <1>6, <1>7 DEF HartStep

\* The steps of the terminal worker while it lives, of its reader, and of the parking watch.
LEMMA PumpKeeps ==
    IInv /\ (PumpPops \/ PumpAcquires \/ PumpReleases \/ HearStop \/ Backpressure \/ WatchPark)
      => IInv'
<1> SUFFICES ASSUME IInv,
                    PumpPops \/ PumpAcquires \/ PumpReleases \/ HearStop \/ Backpressure \/ WatchPark
             PROVE  LocalTyped' /\ UNCHANGED workerFrame
  BY LocalTypes
<1>1. LocalTyped
  BY DEF IInv, TypeOK, LocalTyped
<1> USE <1>1 DEF termVars, sysconVars
<1>2. CASE PumpPops
  <2>1. /\ bytes > 0 /\ bytes' = bytes - 1 /\ pump' = "acquire" /\ UNCHANGED workerFrame
        /\ UNCHANGED <<message, stalled, word, level, hart, watch, lock>>
    BY <1>2 DEF PumpPops
  <2>2. bytes' \in 0 .. MaxBytes
    BY <2>1, MaxBytesAssumption DEF LocalTyped, MaxBytesAssumption
  <2>3. QED
    BY <2>1, <2>2 DEF LocalTyped
<1>3. CASE PumpAcquires
  BY <1>3 DEF PumpAcquires, LocalTyped
<1>4. CASE PumpReleases
  BY <1>4 DEF PumpReleases, LocalTyped
<1>5. CASE HearStop
  BY <1>5 DEF HearStop, LocalTyped
<1>6. CASE Backpressure
  BY <1>6 DEF Backpressure, LocalTyped
<1>7. CASE WatchPark
  BY <1>7 DEF WatchPark, LocalTyped, workerFrame
<1>8. QED
  BY <1>2, <1>3, <1>4, <1>5, <1>6, <1>7

\* However a worker ends.
LEMMA WorkerEndsKeeps ==
    ASSUME IInv,
           \/ \E diedStream \in BOOLEAN : TerminalExits(diedStream)
           \/ \E c \in Workers : Crash(c) \/ TerminateLands(c)
    PROVE  IInv'
<1>1. ASSUME NEW diedStream \in BOOLEAN, TerminalExits(diedStream) PROVE IInv'
  BY <1>1, EndKeeps DEF TerminalExits, Workers
<1>2. ASSUME NEW c \in Workers, Crash(c) PROVE IInv'
  BY <1>2, EndKeeps DEF Crash
<1>3. ASSUME NEW c \in Workers, TerminateLands(c) PROVE IInv'
  <2>1. stopped
    BY <1>3 DEF TerminateLands, IInv, StopFirst
  <2>2. QED
    BY <1>3, <2>1, EndKeeps DEF TerminateLands
<1>4. QED
  BY <1>1, <1>2, <1>3

\* Every step keeps the invariant.
LEMMA StepKeeps == IInv /\ [Next]_vars => IInv'
<1> SUFFICES ASSUME IInv, [Next]_vars PROVE IInv'
  OBVIOUS
<1>1. CASE HostStep
  BY <1>1, StopByHostKeeps, StartKeeps, StartFailsKeeps, HearErrorKeeps, HearExitKeeps,
     FallbackKeeps, FinishKeeps, WatchLoadKeeps, PumpKeeps DEF HostStep
<1>2. CASE HartStep
  BY <1>2, HartKeeps
<1>3. CASE TerminalStep \/ Backpressure
  BY <1>3, PumpKeeps, WorkerEndsKeeps DEF TerminalStep
<1>4. CASE (\E c \in Workers : Crash(c)) \/ (\E c \in Workers : TerminateLands(c))
  BY <1>4, WorkerEndsKeeps
<1>5. CASE UNCHANGED vars
  <2>1. UNCHANGED workerFrame
    BY <1>5 DEF vars, workerFrame
  <2>2. LocalTyped
    BY DEF IInv, TypeOK, LocalTyped
  <2>3. UNCHANGED <<message, stalled, word, level, hart, watch, pump, bytes, lock>>
    BY <1>5 DEF vars, sysconVars, termVars
  <2>4. LocalTyped'
    BY <2>2, <2>3, ZenonT(30) DEF LocalTyped
  <2>5. QED
    BY <2>1, <2>4, LocalTypes
<1>6. QED
  BY <1>1, <1>2, <1>3, <1>4, <1>5 DEF Next

\* Every reachable state satisfies the inductive invariant, its types included.
THEOREM Inductive == Spec => []IInv
<1>1. Init => IInv
  BY InitEstablishes
<1>2. IInv /\ [Next]_vars => IInv'
  BY StepKeeps
<1>3. QED
  BY <1>1, <1>2, PTL DEF Spec

\* What awaiting the machine reports is true, whatever dies, is stopped or fails to start.
THEOREM OutcomeTruthful == Spec => []DoneTruthful
<1>1. IInv => DoneTruthful
  BY DEF IInv
<1>2. QED
  BY <1>1, Inductive, PTL
-----------------------------------------------------------------------------
\* A hart about to exchange has something to ask for.
LevelHeld == hart = "exchange" => level \in Requests

\* Only a store of the guest brings the hart to its exchange.
LEMMA LevelHeldInductive == LevelHeld /\ [Next]_vars => LevelHeld'
<1> SUFFICES ASSUME LevelHeld, [Next]_vars PROVE LevelHeld'
  OBVIOUS
<1>1. ASSUME NEW regs \in SUBSET Requests, GuestStore(regs) PROVE LevelHeld'
  BY <1>1 DEF GuestStore, RequestLevel, Requests, LevelHeld
<1>2. ASSUME NEW c \in Workers, NEW es, Ends(c, es) PROVE LevelHeld'
  <2>1. CASE c = "cpu"
    BY <1>2, <2>1 DEF Ends, LevelHeld
  <2>2. CASE c # "cpu"
    BY <1>2, <2>2 DEF Ends, LevelHeld
  <2>3. QED
    BY <2>1, <2>2
<1>3. CASE HartStep
  <2>1. CASE Exchange \/ Notify \/ GuestPrints \/ HartAcquires \/ HartReleases
    BY <2>1 DEF Exchange, Notify, GuestPrints, HartAcquires, HartReleases, sysconVars, LevelHeld
  <2>2. QED
    BY <1>1, <1>3, <2>1 DEF HartStep
<1>4. CASE TerminalStep
  <2>1. ASSUME NEW diedStream \in BOOLEAN, TerminalExits(diedStream) PROVE LevelHeld'
    BY <1>2, <2>1 DEF TerminalExits, Workers
  <2>2. CASE PumpPops \/ PumpAcquires \/ PumpReleases \/ HearStop
    BY <2>2 DEF PumpPops, PumpAcquires, PumpReleases, HearStop, sysconVars, LevelHeld
  <2>3. QED
    BY <1>4, <2>1, <2>2 DEF TerminalStep
<1>5. ASSUME NEW c \in Workers, Crash(c) \/ TerminateLands(c) PROVE LevelHeld'
  BY <1>2, <1>5 DEF Crash, TerminateLands
<1>6. CASE UNCHANGED <<hart, level>>
  BY <1>6 DEF LevelHeld
<1>7. CASE HostStep
  <2>1. UNCHANGED <<hart, level>>
    BY <1>7 DEF HostStep, Stop, Start, StartFails, HearError, HearExit, FallbackFires, Finish,
       WatchLoad, WatchPark, sysconVars
  <2>2. QED
    BY <1>6, <2>1
<1>8. CASE Backpressure \/ UNCHANGED vars
  <2>1. UNCHANGED <<hart, level>>
    BY <1>8 DEF Backpressure, vars, sysconVars
  <2>2. QED
    BY <1>6, <2>1
<1>9. QED
  BY <1>3, <1>4, <1>5, <1>7, <1>8 DEF Next

\* Whoever writes the word over a request writes a request.
LEMMA RequestStep == LevelHeld /\ [Next]_vars => (word \in Requests => word' \in Requests)
<1> SUFFICES ASSUME LevelHeld, [Next]_vars, word \in Requests PROVE word' \in Requests
  OBVIOUS
<1>1. CancelWord(word) = word
  BY DEF CancelWord, Requests, SYSCON_REQUEST_IDLE, SYSCON_REQUEST_POWEROFF, SYSCON_REQUEST_REBOOT
<1>2. CASE UNCHANGED word
  BY <1>2
<1>3. CASE Stop \/ Finish
  <2>1. UNCHANGED word
    BY <1>1, <1>3 DEF Stop, Finish, StopEmulator
  <2>2. QED
    BY <2>1
<1>4. CASE WatchLoad
  <2>1. CASE word = SYSCON_REQUEST_POWEROFF
    BY <1>1, <1>4, <2>1 DEF WatchLoad, StopEmulator, Requests, SYSCON_REQUEST_POWEROFF,
       SYSCON_REQUEST_REBOOT, SYSCON_REQUEST_STOPPED
  <2>2. CASE word # SYSCON_REQUEST_POWEROFF
    BY <1>1, <1>4, <2>2 DEF WatchLoad, StopEmulator, Requests, SYSCON_REQUEST_POWEROFF,
       SYSCON_REQUEST_REBOOT, SYSCON_REQUEST_STOPPED
  <2>3. QED
    BY <2>1, <2>2
<1>5. CASE \E regs \in SUBSET Requests : GuestStore(regs)
  BY <1>5 DEF GuestStore
<1>6. CASE Exchange
  BY <1>6 DEF Exchange, LevelHeld
<1>7. CASE Notify \/ GuestPrints \/ HartAcquires \/ HartReleases
  BY <1>7 DEF Notify, GuestPrints, HartAcquires, HartReleases, sysconVars
<1>8. CASE TerminalStep \/ Backpressure
  BY <1>8 DEF TerminalStep, PumpPops, PumpAcquires, PumpReleases, HearStop, TerminalExits, Ends,
     Backpressure, sysconVars
<1>9. CASE \E c \in Workers : Crash(c) \/ TerminateLands(c)
  BY <1>9 DEF Crash, TerminateLands, Ends
<1>10. CASE UNCHANGED vars
  BY <1>10 DEF vars, sysconVars
<1>11. CASE HostStep
  <2>1. CASE Start \/ (\E n \in 1 .. 3 : StartFails(n)) \/ (\E c \in Workers : HearError(c))
             \/ (\E c \in Workers : HearExit(c)) \/ FallbackFires \/ WatchPark
    <3>1. UNCHANGED word
      BY <2>1 DEF Start, StartFails, HearError, HearExit, FallbackFires, WatchPark, sysconVars
    <3>2. QED
      BY <3>1
  <2>2. QED
    BY <1>3, <1>4, <1>11, <2>1 DEF HostStep
<1>12. QED
  BY <1>5, <1>6, <1>7, <1>8, <1>9, <1>10, <1>11 DEF Next, HartStep

\* A request that the guest has published is never lost, whatever the host cancels meanwhile.
THEOREM RequestKept == Spec => RequestSurvives
<1>1. Init => LevelHeld
  BY DEF Init, LevelHeld
<1>2. LevelHeld /\ [Next]_vars => LevelHeld'
  BY LevelHeldInductive
<1>3. LevelHeld /\ [Next]_vars => [(word \in Requests) => (word' \in Requests)]_vars
  BY RequestStep
<1>4. QED
  BY <1>1, <1>2, <1>3, PTL DEF Spec, RequestSurvives
=============================================================================
