------------------------------ MODULE Lifecycle ------------------------------
(***************************************************************************)
(* Start, stop and death of the machine: the Emulator and its three handles*)
(* on the host's event loop (emulator/index.ts, cpu/, timer/ and           *)
(* terminal/index.ts), the workers they run, and the syscon word through   *)
(* which the guest asks to be switched off (syscon/region.ts).             *)
(*                                                                         *)
(* A callback of the host is one step.  A worker may be terminated, or     *)
(* fail, between any two of its shared accesses; the gateway lock of the   *)
(* PLIC is here because whoever dies with it leaves the other waiting.     *)
(***************************************************************************)
EXTENDS Integers, Sequences

CONSTANT MaxBytes       \* bytes waiting for the terminal worker at a time

ASSUME MaxBytesAssumption == MaxBytes \in Nat

StartOrder == <<"timer", "cpu", "terminal">>
Workers    == {"timer", "cpu", "terminal"}

SYSCON_REQUEST_IDLE     == 0
SYSCON_REQUEST_POWEROFF == 1
SYSCON_REQUEST_REBOOT   == 2
SYSCON_REQUEST_STOPPED  == 3
Requests == {SYSCON_REQUEST_POWEROFF, SYSCON_REQUEST_REBOOT}

VARIABLES
    started,        \* Emulator.#started
    stopped,        \* #stopped of the Emulator and, set in the same turn, of the handles
    worker,         \* "absent", "alive" or "gone"
    terminating,    \* the workers terminate() was called on
    events,         \* per worker, the events the host has not handled yet
    lifetime,       \* per handle, its promise
    done,           \* Emulator.#done
    fallback,       \* the terminate timer: "off", "armed", "fired" or "cleared"
    message,        \* the stop message: "none", "sent" or "seen"
    word,           \* the wake word of syscon
    level,          \* the request the hart is publishing
    hart,           \* "idle", "locked", or the publication's next step: "exchange", "notify"
    watch,          \* "off", "load", "park", "parked", or what watchSyscon returned
    pump,           \* the terminal worker: "loop", "acquire" or "locked"
    bytes,          \* bytes waiting to be printed
    stalled,        \* standard output takes no bytes
    lock,           \* holder of the gateway lock
    crashed         \* history: the workers that failed by themselves

hostVars   == <<started, stopped, terminating, lifetime, done, fallback>>
sysconVars == <<word, level, hart, watch>>
termVars   == <<pump, bytes, stalled, lock>>
vars == <<hostVars, worker, events, message, sysconVars, termVars, crashed>>

TypeOK ==
    /\ started \in BOOLEAN /\ stopped \in BOOLEAN /\ stalled \in BOOLEAN
    /\ worker \in [Workers -> {"absent", "alive", "gone"}]
    /\ terminating \subseteq Workers /\ crashed \subseteq Workers
    /\ events \in [Workers -> {<<>>, <<"exit 0">>, <<"exit 1">>, <<"error", "exit 1">>}]
    /\ lifetime \in [Workers -> {"pending", "resolved", "rejected"}]
    /\ done \in {"pending", "resolved", "rejected"}
    /\ fallback \in {"off", "armed", "fired", "cleared"}
    /\ message \in {"none", "sent", "seen"}
    /\ word \in 0 .. 3 /\ level \in Requests \cup {SYSCON_REQUEST_IDLE}
    /\ hart \in {"idle", "locked", "exchange", "notify"}
    /\ watch \in {"off", "load", "park", "parked", "poweroff", "reboot", "idle"}
    /\ pump \in {"loop", "acquire", "locked"} /\ bytes \in 0 .. MaxBytes
    /\ lock \in {"free", "cpu", "terminal"}

Init ==
    /\ started = FALSE /\ stopped = FALSE /\ stalled = FALSE
    /\ worker = [c \in Workers |-> "absent"]
    /\ terminating = {} /\ crashed = {}
    /\ events = [c \in Workers |-> <<>>]
    /\ lifetime = [c \in Workers |-> "pending"]
    /\ done = "pending" /\ fallback = "off" /\ message = "none"
    /\ word = SYSCON_REQUEST_IDLE /\ level = SYSCON_REQUEST_IDLE /\ hart = "idle" /\ watch = "off"
    /\ pump = "loop" /\ bytes = 0 /\ lock = "free"
-----------------------------------------------------------------------------
(* Stopping, on the host *)

\* Terminal.#exited: its exit event has been handled.
TerminalExited == worker["terminal"] = "gone" /\ events["terminal"] = <<>>

\* Mutated form of ArmFallback: the host trusts the stop message.
ArmNothing == UNCHANGED fallback

ArmFallback ==
    fallback' = IF worker["terminal"] # "absent" /\ ~TerminalExited THEN "armed" ELSE fallback

\* stop() of the three handles: a handle that has no worker resolves at once.
StopHandles(workers) ==
    /\ terminating' = terminating \cup {c \in {"cpu", "timer"} : workers[c] # "absent"}
    /\ lifetime' = [c \in Workers |-> IF workers[c] = "absent" /\ lifetime[c] = "pending"
                                      THEN "resolved" ELSE lifetime[c]]
    /\ message' = IF workers["terminal"] = "alive" THEN "sent" ELSE message

\* Mutated form of CancelWord: the cancellation stores over whatever is there.
CancelStores(w) == SYSCON_REQUEST_STOPPED

\* cancelSysconWatch, a compare-exchange.
CancelWord(w) == IF w = SYSCON_REQUEST_IDLE THEN SYSCON_REQUEST_STOPPED ELSE w

\* Its notify, which follows only if the exchange happened.
CancelNotify(watching) ==
    IF word = SYSCON_REQUEST_IDLE /\ watching = "parked" THEN "load" ELSE watching

\* Emulator.stop, with the watch at watching; it does nothing the second time.
StopEmulator(watching) ==
    IF stopped
    THEN watch' = watching
         /\ UNCHANGED <<stopped, terminating, lifetime, message, fallback, word>>
    ELSE /\ stopped' = TRUE
         /\ word' = CancelWord(word)
         /\ watch' = CancelNotify(watching)
         /\ StopHandles(worker)
         /\ ArmFallback

\* stop() called by the program that embeds the machine.
Stop ==
    /\ ~stopped
    /\ StopEmulator(watch)
    /\ UNCHANGED <<started, worker, events, done, level, hart, termVars, crashed>>
-----------------------------------------------------------------------------
(* Starting, on the host *)

Start ==
    /\ ~started /\ ~stopped
    /\ started' = TRUE
    /\ worker' = [c \in Workers |-> "alive"]
    /\ watch' = "load"
    /\ UNCHANGED <<stopped, terminating, lifetime, done, fallback, events, message,
                   word, level, hart, termVars, crashed>>

\* The n-th worker cannot be created: those before it are stopped again.
StartFails(n) ==
    LET begun == [c \in Workers |-> IF \E i \in 1 .. n - 1 : StartOrder[i] = c
                                    THEN "alive" ELSE "absent"]
    IN /\ ~started /\ ~stopped
       /\ worker' = begun
       /\ StopHandles(begun)
       /\ stopped' = TRUE
       /\ UNCHANGED <<started, done, fallback, events, sysconVars, termVars, crashed>>
-----------------------------------------------------------------------------
(* What the host hears of its workers *)

\* Mutated form of ExitOutcome: the exit of a terminated worker counts as a failure.
ExitAsCoded(c) == IF Head(events[c]) = "exit 0" THEN "resolved" ELSE "rejected"

ExitOutcome(c) == IF stopped \/ Head(events[c]) = "exit 0" THEN "resolved" ELSE "rejected"

\* A promise settles once.
Settle(c, outcome) ==
    lifetime' = IF lifetime[c] = "pending" THEN [lifetime EXCEPT ![c] = outcome] ELSE lifetime

HearError(c) ==
    /\ events[c] # <<>> /\ Head(events[c]) = "error"
    /\ events' = [events EXCEPT ![c] = Tail(@)]
    /\ Settle(c, "rejected")
    /\ UNCHANGED <<started, stopped, terminating, done, fallback, worker, message,
                   sysconVars, termVars, crashed>>

HearExit(c) ==
    /\ events[c] # <<>> /\ Head(events[c]) # "error"
    /\ events' = [events EXCEPT ![c] = Tail(@)]
    /\ Settle(c, ExitOutcome(c))
    /\ fallback' = IF c = "terminal" /\ fallback = "armed" THEN "cleared" ELSE fallback
    /\ UNCHANGED <<started, stopped, terminating, done, worker, message,
                   sysconVars, termVars, crashed>>

FallbackFires ==
    /\ fallback = "armed"
    /\ fallback' = "fired"
    /\ terminating' = terminating \cup {"terminal"}
    /\ UNCHANGED <<started, stopped, lifetime, done, worker, events, message,
                   sysconVars, termVars, crashed>>

\* Promise.all, and the stop that follows it.
Finish ==
    /\ done = "pending"
    /\ \/ \E c \in Workers : lifetime[c] = "rejected"
       \/ \A c \in Workers : lifetime[c] = "resolved"
    /\ done' = IF \E c \in Workers : lifetime[c] = "rejected" THEN "rejected" ELSE "resolved"
    /\ StopEmulator(watch)
    /\ UNCHANGED <<started, worker, events, level, hart, termVars, crashed>>
-----------------------------------------------------------------------------
(* watchSyscon, on the host *)

WatchLoad ==
    /\ watch = "load"
    /\ CASE word \in Requests ->
              StopEmulator(IF word = SYSCON_REQUEST_POWEROFF THEN "poweroff" ELSE "reboot")
         [] word = SYSCON_REQUEST_STOPPED ->
              watch' = "idle" /\ UNCHANGED <<stopped, terminating, lifetime, message, fallback, word>>
         [] OTHER ->
              watch' = "park" /\ UNCHANGED <<stopped, terminating, lifetime, message, fallback, word>>
    /\ UNCHANGED <<started, worker, events, done, level, hart, termVars, crashed>>

\* waitWake: waitAsync compares and parks in one step.
WatchPark ==
    /\ watch = "park"
    /\ watch' = IF word = SYSCON_REQUEST_IDLE THEN "parked" ELSE "load"
    /\ UNCHANGED <<hostVars, worker, events, message, word, level, hart, termVars, crashed>>
-----------------------------------------------------------------------------
(* The workers *)

Alive(c) == worker[c] = "alive"

workerFrame == <<hostVars, worker, events, crashed>>

\* What the guest registers ask for; regs are those that hold their magic value.
RequestLevel(regs) == IF SYSCON_REQUEST_POWEROFF \in regs THEN SYSCON_REQUEST_POWEROFF
                                                          ELSE SYSCON_REQUEST_REBOOT

\* A store to syscon, and the first half of publishSysconRequest; the guest may leave any
\* of the registers with its magic value, and with neither there is nothing to publish.
GuestStore(regs) ==
    /\ Alive("cpu") /\ hart = "idle" /\ regs # {}
    /\ level' = RequestLevel(regs)
    /\ hart' = "exchange"
    /\ UNCHANGED <<workerFrame, message, word, watch, termVars>>

\* publishWakeLevel.
Exchange ==
    /\ Alive("cpu") /\ hart = "exchange"
    /\ word' = level
    /\ hart' = IF word = level THEN "idle" ELSE "notify"
    /\ level' = SYSCON_REQUEST_IDLE
    /\ UNCHANGED <<workerFrame, message, watch, termVars>>

Notify ==
    /\ Alive("cpu") /\ hart = "notify"
    /\ watch' = IF watch = "parked" THEN "load" ELSE watch
    /\ hart' = "idle"
    /\ UNCHANGED <<workerFrame, message, word, level, termVars>>

GuestPrints ==
    /\ Alive("cpu") /\ hart = "idle" /\ bytes < MaxBytes
    /\ bytes' = bytes + 1
    /\ UNCHANGED <<workerFrame, message, sysconVars, pump, stalled, lock>>

\* The guest uses the PLIC, or a register of the UART that refreshes its interrupt.
HartAcquires ==
    /\ Alive("cpu") /\ hart = "idle" /\ lock = "free"
    /\ hart' = "locked" /\ lock' = "cpu"
    /\ UNCHANGED <<workerFrame, message, word, level, watch, pump, bytes, stalled>>

HartReleases ==
    /\ Alive("cpu") /\ hart = "locked"
    /\ hart' = "idle" /\ lock' = "free"
    /\ UNCHANGED <<workerFrame, message, word, level, watch, pump, bytes, stalled>>

\* A byte is popped and the UART interrupt refreshed, under the gateway lock.
PumpPops ==
    /\ Alive("terminal") /\ pump = "loop" /\ bytes > 0 /\ ~stalled
    /\ bytes' = bytes - 1 /\ pump' = "acquire"
    /\ UNCHANGED <<workerFrame, message, sysconVars, stalled, lock>>

\* The worker waits for the lock synchronously: it hears no message meanwhile.
PumpAcquires ==
    /\ Alive("terminal") /\ pump = "acquire" /\ lock = "free"
    /\ pump' = "locked" /\ lock' = "terminal"
    /\ UNCHANGED <<workerFrame, message, sysconVars, bytes, stalled>>

PumpReleases ==
    /\ Alive("terminal") /\ pump = "locked"
    /\ pump' = "loop" /\ lock' = "free"
    /\ UNCHANGED <<workerFrame, message, sysconVars, bytes, stalled>>

HearStop ==
    /\ Alive("terminal") /\ pump = "loop" /\ message = "sent"
    /\ message' = "seen"
    /\ UNCHANGED <<workerFrame, sysconVars, termVars>>

\* Worker c ends and the host will hear es; what only it would still use is dropped, the
\* lock it holds is not.
Ends(c, es) ==
    /\ worker' = [worker EXCEPT ![c] = "gone"]
    /\ events' = [events EXCEPT ![c] = es]
    /\ IF c = "cpu"
       THEN /\ hart' = IF hart = "notify" THEN "notify" ELSE "idle"
            /\ level' = SYSCON_REQUEST_IDLE
       ELSE UNCHANGED <<hart, level>>
    /\ IF c = "terminal"
       THEN pump' = "loop" /\ bytes' = 0 /\ stalled' = FALSE /\ message' = "none"
       ELSE UNCHANGED <<pump, bytes, stalled, message>>
    /\ UNCHANGED <<hostVars, word, watch, lock>>

\* Everything printed after a stop: process.exit(0).  A stream that dies ends it too.
TerminalExits(diedStream) ==
    /\ Alive("terminal") /\ pump = "loop"
    /\ diedStream \/ (message = "seen" /\ bytes = 0 /\ ~stalled)
    /\ Ends("terminal", <<"exit 0">>)
    /\ UNCHANGED crashed

\* A worker throws: Node reports the error and then the exit.
Crash(c) ==
    /\ Alive(c)
    /\ Ends(c, <<"error", "exit 1">>)
    /\ crashed' = crashed \cup {c}

\* terminate() takes effect, wherever the worker is; a lock it holds stays held.
TerminateLands(c) ==
    /\ Alive(c) /\ c \in terminating
    /\ Ends(c, <<"exit 1">>)
    /\ UNCHANGED crashed

\* The reader of standard output stops or resumes.
Backpressure ==
    /\ Alive("terminal")
    /\ stalled' = ~stalled
    /\ UNCHANGED <<workerFrame, message, sysconVars, pump, bytes, lock>>
-----------------------------------------------------------------------------
HostStep ==
    \/ Stop \/ Start \/ (\E n \in 1 .. 3 : StartFails(n))
    \/ (\E c \in Workers : HearError(c)) \/ (\E c \in Workers : HearExit(c))
    \/ FallbackFires \/ Finish \/ WatchLoad \/ WatchPark

HartStep ==
    \/ (\E regs \in SUBSET Requests : GuestStore(regs)) \/ Exchange \/ Notify
    \/ GuestPrints \/ HartAcquires \/ HartReleases

TerminalStep ==
    \/ PumpPops \/ PumpAcquires \/ PumpReleases \/ HearStop
    \/ (\E diedStream \in BOOLEAN : TerminalExits(diedStream))

Next ==
    \/ HostStep \/ HartStep \/ TerminalStep \/ Backpressure
    \/ (\E c \in Workers : Crash(c)) \/ (\E c \in Workers : TerminateLands(c))

Spec == Init /\ [][Next]_vars

\* The host handles its events and timers, a terminated worker ends, and a hart that has
\* begun to publish goes on; nothing is assumed of the terminal worker or its reader.
Fairness ==
    /\ \A c \in Workers : WF_vars(HearError(c)) /\ WF_vars(HearExit(c)) /\ WF_vars(TerminateLands(c))
    /\ WF_vars(FallbackFires) /\ WF_vars(Finish) /\ WF_vars(WatchLoad) /\ WF_vars(WatchPark)
    /\ WF_vars(Exchange) /\ WF_vars(Notify)

FairSpec == Spec /\ Fairness
-----------------------------------------------------------------------------
(* Properties *)

\* What awaiting the machine reports is true: it fulfils only when no worker is left and
\* none has failed, and it rejects only if a worker failed by itself, never for a stop, a
\* guest's request or a forced termination (the exit listeners, Promise.all, the rollback).
DoneTruthful ==
    /\ done = "resolved" => \A c \in Workers : worker[c] # "alive" /\ c \notin crashed
    /\ done = "rejected" => crashed # {}

\* A request the guest has published is never lost to the host's cancellation, whichever
\* comes first (cancelSysconWatch, publishSysconRequest).
RequestSurvives == [][(word \in Requests) => (word' \in Requests)]_vars

\* The hart died after its exchange and before its notify.
CutShort == hart = "notify" /\ ~Alive("cpu")

\* However the machine is asked to end (a stop, a guest's request, a failed worker, a failed
\* start), every worker ends, the promise settles and the watch returns, whatever the
\* terminal worker is blocked on; only a hart that dies between the exchange and the notify
\* of its request can leave the watch parked (Emulator.stop, Terminal.stop, watchSyscon).
Halts ==
    (stopped \/ word \in Requests \/ crashed # {}) ~>
        /\ done # "pending"
        /\ \A c \in Workers : worker[c] # "alive"
        /\ watch \in {"off", "poweroff", "reboot", "idle"} \/ CutShort
=============================================================================
