------------------------------ MODULE ChannelIO ------------------------------
(***************************************************************************)
(* The S/370 channel subsystem of src/hercules/channel.c, as the one CPU   *)
(* of the machine drives it: SIO, TIO and HIO (io.c), channel programs     *)
(* that a scheduler runs on threads of its own (or, for a synchronous      *)
(* device, on the CPU's thread), the queue of I/O interrupts               *)
(* (sysblk.iointq, hmacros.h), the IC_IOPENDING summary bit, and the CPU   *)
(* taking interrupts or sleeping in the wait state (cpu.c).                *)
(*                                                                         *)
(* One action is one section under a device's dev->lock, or one section    *)
(* under sysblk.intlock: those are the places where the threads can        *)
(* interleave.  iointqlk is only ever taken inside one of them.            *)
(*                                                                         *)
(* A request is one accepted start of a channel program.  Requests are     *)
(* reused once their program has ended, so behaviours are unbounded; the   *)
(* number of requests in flight is at most |Req|.                          *)
(***************************************************************************)
EXTENDS Integers, Sequences, SequencesExt

CONSTANTS
    Device,         \* the device blocks, sysblk.firstdev .. nextdev
    NoDev,          \* the device of a request that is not in use
    Req,            \* identities of channel-program executions
    NoReq,
    NoIo,           \* no interrupt picked
    Channel,        \* channel numbers
    Chan,           \* [Device -> Channel], devnum >> 8
    Priority,       \* [Device -> Nat], dev->priority
    SyncIo,         \* [Device -> 0..2], dev->syncio
    Console,        \* devices that raise attention (consoles)
    Reservable,     \* devices whose commands include RESERVE and RELEASE
    MaxCcw,         \* bound: the longest channel program, in CCWs
    AllowSchedFail  \* may handing a request to the scheduler fail

Kind == {"io", "pci", "attn"}       \* ioint, pciioint and attnioint of a DEVBLK
IoInt == Device \X Kind

ASSUME ChannelAssumption ==
    /\ NoDev \notin Device
    /\ NoReq \notin Req
    /\ NoIo \notin IoInt
    /\ Chan \in [Device -> Channel]
    /\ Priority \in [Device -> Nat]
    /\ SyncIo \in [Device -> 0..2]
    /\ Console \subseteq Device
    /\ Reservable \subseteq Device
    /\ MaxCcw \in Nat \ {0}
    /\ AllowSchedFail \in BOOLEAN

VARIABLES
    busy,           \* devices with dev->busy
    startpending,   \* devices with dev->startpending
    active,         \* devices with dev->ioactive = DEV_SYS_LOCAL
    reserved,       \* devices with dev->reserved
    halted,         \* devices with SCSW2_FC_HALT in scsw.flag2; what is left of
                    \* it when a program has ended is of no use to anyone
    flags,          \* interrupts with their dev->pending/pcipending/attnpending on
    iointq,         \* sysblk.iointq, in queue order
    ic,             \* IC_IOPENDING
    req,            \* where the execution of each request is; hasty is history:
                    \* the last end was unreported when SIO was accepted
    cpupc,          \* where the CPU thread is
    cpureq,         \* the request a startio in progress has made
    cpuio,          \* the interrupt present_io_interrupt has picked
    mask,           \* channels enabled by psw.sysmask
    wait,           \* the wait bit of the PSW
    signal,         \* regs->intcond has been signalled
    attnupd,        \* the console thread is about to update IC_IOPENDING
    unreported      \* history: devices whose dev->csw is an ending status that
                    \* nobody has seen; a later end writes over it

devvars == <<busy, startpending, active, reserved, halted>>
intvars == <<flags, iointq>>
cpuvars == <<cpupc, cpureq, cpuio>>
pswvars == <<mask, wait>>
vars == <<devvars, intvars, ic, req, cpuvars, pswvars, signal, attnupd, unreported>>

ReqPc == {"free",       \* not in use
          "sched",      \* startio is about to hand it to the scheduler
          "queued",     \* with the scheduler
          "start",      \* synchronous: execute_ccw_chain called by startio
          "ccw",        \* about to fetch a CCW
          "pciupd",     \* raised a PCI, about to update IC_IOPENDING
          "exec",       \* fetched a CCW and raised its PCI, about to execute it
          "end",        \* left the CCW loop
          "endupd",     \* queued the ending interrupt, about to update IC_IOPENDING
          "retry",      \* synchronous attempt given up
          "done"}       \* synchronous attempt complete

CpuPc == {"run", "sched", "sync", "upd", "take", "wait"}

Init ==
    /\ busy = {} /\ startpending = {} /\ active = {} /\ reserved = {} /\ halted = {}
    /\ flags = {} /\ iointq = <<>> /\ ic = FALSE
    /\ req = [r \in Req |-> [pc |-> "free", dev |-> NoDev, ccw |-> 0,
                             sync |-> FALSE, retry |-> FALSE, hasty |-> FALSE]]
    /\ cpupc = "run" /\ cpureq = NoReq /\ cpuio = NoIo
    /\ mask = {} /\ wait = FALSE /\ signal = FALSE /\ attnupd = FALSE
    /\ unreported = {}

-----------------------------------------------------------------------------
(* The interrupt queue (hmacros.h) *)

Listed(q, io) == \E i \in 1..Len(q) : q[i] = io

\* As if QUEUE_IO_INTERRUPT put every entry last.
InsertionPointLast(q, io) == Len(q) + 1

\* The loop of QUEUE_IO_INTERRUPT goes as far as the entry itself, the first
\* entry of a greater priority number, or the end of the queue.
InsertionPoint(q, io) ==
    LET Stops(n) == n <= Len(q) => q[n] = io \/ Priority[q[n][1]] > Priority[io[1]] IN
    CHOOSE n \in 1..(Len(q) + 1) : Stops(n) /\ \A m \in 1..(n - 1) : ~Stops(m)

Enqueue(q, io) ==
    LET n == InsertionPoint(q, io) IN
    IF n <= Len(q) /\ q[n] = io THEN q ELSE InsertAt(q, n, io)

\* As if DEQUEUE_IO_INTERRUPT unlinked whatever is first.
PositionFirst(q, io) == 1

\* DEQUEUE_IO_INTERRUPT: the entry is unlinked wherever it is first found.
Position(q, io) ==
    CHOOSE i \in 1..Len(q) : q[i] = io /\ \A j \in 1..(i - 1) : q[j] # io

Dequeue(q, io) == IF Listed(q, io) THEN RemoveAt(q, Position(q, io)) ELSE q

\* As if QUEUE_IO_INTERRUPT left dev->pending off.
QueueWithoutFlag(io) ==
    /\ iointq' = Enqueue(iointq, io)
    /\ UNCHANGED flags

\* As if a new interrupt replaced the device's earlier ones.
QueueReplacing(io) ==
    /\ iointq' = Enqueue(SelectSeq(iointq, LAMBDA x : x[1] # io[1]), io)
    /\ flags' = {x \in flags : x[1] # io[1]} \cup {io}

QueueInterrupt(io) ==
    /\ iointq' = Enqueue(iointq, io)
    /\ flags' = flags \cup {io}

DequeueInterrupt(io) ==
    /\ iointq' = Dequeue(iointq, io)
    /\ flags' = IF Listed(iointq, io) THEN flags \ {io} ELSE flags

\* As if UPDATE_IC_IOPENDING never turned the bit off, or woke nobody.
UpdateIcOn ==
    /\ ic' = TRUE
    /\ signal' = (signal \/ cpupc = "wait")

UpdateIcSilent ==
    /\ ic' = (iointq # <<>>)
    /\ UNCHANGED signal

\* UPDATE_IC_IOPENDING, under intlock: the summary bit follows the queue, and
\* a CPU in waiting_mask is signalled whenever the queue is not empty.
UpdateIc ==
    /\ ic' = (iointq # <<>>)
    /\ signal' = (signal \/ (iointq # <<>> /\ cpupc = "wait"))

\* process_interrupt holds intlock until present_io_interrupt has returned.
IntlockFree == cpupc # "take"

FlagsOf(d) == flags \cap ({d} \X Kind)

-----------------------------------------------------------------------------
(* The CPU: taking interrupts, waiting, changing its PSW (cpu.c) *)

\* Positions on the queue of the interrupts interrupt_enabled accepts.
Enabled == {i \in 1..Len(iointq) : Chan[iointq[i][1]] \in mask}

\* INTERRUPT_PENDING leads process_interrupt to call present_io_interrupt, and
\* that call finds an interrupt.  The operations modelled leave ic on with
\* nothing queued only until the CPU's own update, so that never meets this.
MustPresent == ic /\ Enabled # {}

\* run_cpu looks for interrupts before it fetches each instruction.
Fetching == cpupc = "run" /\ ~wait /\ ~MustPresent

\* The program, or the new PSW of an interrupt, chooses mask and wait bit; a
\* wait with every interrupt masked is a disabled wait, which stops the CPU.
LoadPsw == \E m \in SUBSET Channel, w \in BOOLEAN :
    /\ w => m # {}
    /\ mask' = m /\ wait' = w

\* present_io_interrupt, up to the release of iointqlk: pick the first entry
\* the PSW enables.
PickInterrupt ==
    /\ cpupc = "run" /\ MustPresent /\ Enabled # {}
    /\ \E i \in Enabled :
        /\ \A j \in Enabled : i <= j
        /\ cpuio' = iointq[i]
    /\ cpupc' = "take"
    /\ UNCHANGED <<devvars, intvars, ic, req, cpureq, pswvars, signal, attnupd, unreported>>

\* The second half of present_io_interrupt, under dev->lock and iointqlk, and
\* the PSW swap of perform_io_interrupt.  What the new PSW enables is up to
\* the program.
TakeInterrupt ==
    /\ cpupc = "take"
    /\ Listed(iointq, cpuio)
    /\ DequeueInterrupt(cpuio)
    /\ ic' = (iointq' # <<>>)
    /\ unreported' = IF cpuio[2] = "io" THEN unreported \ {cpuio[1]} ELSE unreported
    /\ LoadPsw
    /\ cpupc' = "run" /\ cpuio' = NoIo
    /\ UNCHANGED <<devvars, req, cpureq, signal, attnupd>>

\* process_interrupt: nothing to present and the wait bit on.  Joining
\* waiting_mask and wait_condition are atomic, intlock being held.
EnterWait ==
    /\ cpupc = "run" /\ wait /\ ~MustPresent
    /\ cpupc' = "wait" /\ signal' = FALSE
    /\ UNCHANGED <<devvars, intvars, ic, req, cpureq, cpuio, pswvars, attnupd, unreported>>

\* wait_condition returns: leave waiting_mask and look again.
Wake ==
    /\ cpupc = "wait" /\ signal
    /\ cpupc' = "run" /\ signal' = FALSE
    /\ UNCHANGED <<devvars, intvars, ic, req, cpureq, cpuio, pswvars, attnupd, unreported>>

\* A timer or external interrupt ends the wait and loads its own new PSW.
OtherInterrupt ==
    /\ cpupc = "wait"
    /\ LoadPsw
    /\ cpupc' = "run" /\ signal' = FALSE
    /\ UNCHANGED <<devvars, intvars, ic, req, cpureq, cpuio, attnupd, unreported>>

\* LPSW and SSM.
SetPsw ==
    /\ Fetching
    /\ LoadPsw
    /\ UNCHANGED <<devvars, intvars, ic, req, cpuvars, signal, attnupd, unreported>>

-----------------------------------------------------------------------------
(* START I/O (channel.c startio) *)

\* As if SIO forgot dev->startpending, or looked at nothing else.
IsBusyActive(d) == d \in busy /\ d \in active
IsBusyPending(d) == d \in startpending

\* Condition code 2.  A SIO that finds it changes nothing, so is no action.
IsBusy(d) == (d \in busy /\ d \in active) \/ d \in startpending

\* The request is made: device busy, status word and halt request cleared.
\* dev->pending is not looked at, so the last ending status may be waiting still.
Accept(d, r, pc, sync) ==
    /\ Fetching
    /\ req[r].pc = "free"
    /\ ~IsBusy(d)
    /\ busy' = busy \cup {d}
    /\ startpending' = startpending \cup {d}
    /\ halted' = halted \ {d}
    /\ req' = [req EXCEPT ![r] = [pc |-> pc, dev |-> d, ccw |-> 0,
                                  sync |-> sync, retry |-> FALSE,
                                  hasty |-> d \in unreported]]
    /\ cpureq' = r
    /\ UNCHANGED <<reserved, intvars, ic, cpuio, pswvars, signal, attnupd, unreported>>

\* syncio 2 devices are tried synchronously only if the first command looks
\* immediate; a device still reserved is never tried synchronously.
StartioAsync(d, r) ==
    /\ SyncIo[d] # 1 \/ d \in active
    /\ Accept(d, r, "sched", FALSE)
    /\ cpupc' = "sched"
    /\ UNCHANGED active

StartioSync(d, r) ==
    /\ SyncIo[d] # 0 /\ d \notin active
    /\ Accept(d, r, "start", TRUE)
    /\ active' = active \cup {d}
    /\ cpupc' = "sync"

At(r, pcs) == req[r].pc \in pcs
Goto(r, pc) == req' = [req EXCEPT ![r].pc = pc]
Released == [pc |-> "free", dev |-> NoDev, ccw |-> 0, sync |-> FALSE, retry |-> FALSE,
             hasty |-> FALSE]

\* As if the request were dropped on its way to the scheduler.
ScheduleLost ==
    /\ cpupc = "sched"
    /\ cpupc' = "run" /\ cpureq' = NoReq
    /\ UNCHANGED <<devvars, intvars, ic, req, cpuio, pswvars, signal, attnupd, unreported>>

\* Handing the request to the scheduler: w32chan.c or the device threads.
Schedule ==
    /\ cpupc = "sched"
    /\ Goto(cpureq, "queued")
    /\ cpupc' = "run" /\ cpureq' = NoReq
    /\ UNCHANGED <<devvars, intvars, ic, cpuio, pswvars, signal, attnupd, unreported>>

\* The scheduler cannot make a thread: condition code 2, and nothing undone.
ScheduleFail ==
    /\ AllowSchedFail
    /\ cpupc = "sched"
    /\ req' = [req EXCEPT ![cpureq] = Released]
    /\ cpupc' = "run" /\ cpureq' = NoReq
    /\ UNCHANGED <<devvars, intvars, ic, cpuio, pswvars, signal, attnupd, unreported>>

\* The synchronous execute_ccw_chain has returned: condition code 0, or the
\* rest of the channel program goes to the scheduler.
SyncDone ==
    /\ cpupc = "sync" /\ At(cpureq, {"done"})
    /\ req' = [req EXCEPT ![cpureq] = Released]
    /\ cpupc' = "run" /\ cpureq' = NoReq
    /\ UNCHANGED <<devvars, intvars, ic, cpuio, pswvars, signal, attnupd, unreported>>

SyncRetry ==
    /\ cpupc = "sync" /\ At(cpureq, {"retry"})
    /\ req' = [req EXCEPT ![cpureq].pc = "sched", ![cpureq].sync = FALSE]
    /\ cpupc' = "sched"
    /\ UNCHANGED <<devvars, intvars, ic, cpureq, cpuio, pswvars, signal, attnupd, unreported>>

-----------------------------------------------------------------------------
(* The channel program (channel.c execute_ccw_chain) *)

ChainBegin(r) ==
    /\ At(r, {"queued", "start"})
    /\ active' = active \cup {req[r].dev}
    /\ startpending' = startpending \ {req[r].dev}
    /\ Goto(r, "ccw")
    /\ UNCHANGED <<busy, reserved, halted, intvars, ic, cpuvars, pswvars, signal, attnupd, unreported>>

\* A CCW with the PCI flag, unless it is the one a retry fetches again.
Pci(r) ==
    /\ At(r, {"ccw"}) /\ ~req[r].retry
    /\ QueueInterrupt(<<req[r].dev, "pci">>)
    /\ Goto(r, "pciupd")
    /\ UNCHANGED <<devvars, ic, cpuvars, pswvars, signal, attnupd, unreported>>

PciUpd(r) ==
    /\ At(r, {"pciupd"}) /\ IntlockFree
    /\ UpdateIc
    /\ Goto(r, "exec")
    /\ UNCHANGED <<devvars, intvars, cpuvars, pswvars, attnupd, unreported>>

\* The handler executes the command; the program chains to the next CCW or
\* ends, for lack of a chaining flag or because of the status.
Ccw(r) ==
    LET d == req[r].dev
        n == req[r].ccw + 1 IN
    /\ At(r, {"ccw", "exec"})
    /\ reserved' \in {reserved} \cup
            (IF d \in Reservable THEN {reserved \cup {d}, reserved \ {d}} ELSE {})
    /\ \E pc \in {"ccw", "end"} :
        /\ n = MaxCcw => pc = "end"
        /\ req' = [req EXCEPT ![r].pc = pc, ![r].ccw = n, ![r].retry = FALSE]
    /\ UNCHANGED <<busy, startpending, active, halted, intvars, ic, cpuvars, pswvars,
                   signal, attnupd, unreported>>

\* As if the retry resumed from the CCW before.
RetrySyncPrevious(r) ==
    /\ At(r, {"ccw", "exec"}) /\ req[r].sync
    /\ req' = [req EXCEPT ![r].pc = "retry", ![r].retry = TRUE, ![r].ccw = @ - 1]
    /\ UNCHANGED <<devvars, intvars, ic, cpuvars, pswvars, signal, attnupd, unreported>>

\* The command cannot be done synchronously; the CCW will be fetched again.
RetrySync(r) ==
    /\ At(r, {"ccw", "exec"}) /\ req[r].sync
    /\ req' = [req EXCEPT ![r].pc = "retry", ![r].retry = TRUE]
    /\ UNCHANGED <<devvars, intvars, ic, cpuvars, pswvars, signal, attnupd, unreported>>

\* The end of the program, under dev->lock: dev->csw is written whether or not
\* it holds an earlier status, and the interrupt queued if it is not yet.
ChainEnd(r) ==
    LET d == req[r].dev IN
    /\ At(r, {"end"})
    /\ active' = IF d \in reserved THEN active ELSE active \ {d}
    /\ busy' = busy \ {d} /\ halted' = halted \ {d}
    /\ QueueInterrupt(<<d, "io">>)
    /\ unreported' = unreported \cup {d}
    /\ Goto(r, "endupd")
    /\ UNCHANGED <<startpending, reserved, ic, cpuvars, pswvars, signal, attnupd>>

EndUpd(r) ==
    /\ At(r, {"endupd"}) /\ IntlockFree
    /\ UpdateIc
    /\ req' = [req EXCEPT ![r] = IF @.sync THEN [@ EXCEPT !.pc = "done"] ELSE Released]
    /\ UNCHANGED <<devvars, intvars, cpuvars, pswvars, attnupd, unreported>>

-----------------------------------------------------------------------------
(* TEST I/O, HALT I/O and attention (channel.c) *)

\* The CPU's own update of the summary bit, the last step of TIO and HIO.
CpuUpd ==
    /\ cpupc = "upd"
    /\ UpdateIc
    /\ cpupc' = "run"
    /\ UNCHANGED <<devvars, intvars, req, cpureq, cpuio, pswvars, attnupd, unreported>>

\* The interrupt TIO clears: PCI before ending status before attention.
Foremost(d) ==
    CHOOSE io \in FlagsOf(d) :
        \/ io[2] = "pci"
        \/ io[2] = "io" /\ <<d, "pci">> \notin flags
        \/ FlagsOf(d) = {io}

\* TIO of a busy device is condition code 2, of an idle one with nothing
\* pending condition code 0; neither changes anything.
TestIoPending(d) ==
    /\ Fetching
    /\ ~IsBusy(d) /\ FlagsOf(d) # {}
    /\ DequeueInterrupt(Foremost(d))
    /\ unreported' = IF Foremost(d)[2] = "io" THEN unreported \ {d} ELSE unreported
    /\ cpupc' = "upd"
    /\ UNCHANGED <<devvars, ic, req, cpureq, cpuio, pswvars, signal, attnupd>>

TestedAvailable(d) == ~IsBusy(d) /\ FlagsOf(d) = {}

\* As if HIO took the entries off the queue too.
HaltIoBusyDequeue(d) ==
    /\ Fetching
    /\ d \in busy
    /\ halted' = halted \cup {d}
    /\ flags' = flags \ FlagsOf(d)
    /\ iointq' = SelectSeq(iointq, LAMBDA x : x[1] # d)
    /\ UNCHANGED <<busy, startpending, active, reserved, ic, req, cpuvars, pswvars,
                   signal, attnupd, unreported>>

\* HIO of a busy device: the flags go, the queue entries stay.
HaltIoBusy(d) ==
    /\ Fetching
    /\ d \in busy
    /\ halted' = halted \cup {d}
    /\ flags' = flags \ FlagsOf(d)
    /\ UNCHANGED <<busy, startpending, active, reserved, iointq, ic, req, cpuvars, pswvars,
                   signal, attnupd, unreported>>

\* HIO of an idle device presents the last status again.  With an interrupt
\* pending it is condition code 0 and changes nothing.
HaltIoIdle(d) ==
    /\ Fetching
    /\ d \notin busy /\ FlagsOf(d) = {}
    /\ QueueInterrupt(<<d, "io">>)
    /\ cpupc' = "upd"
    /\ UNCHANGED <<devvars, ic, req, cpureq, cpuio, pswvars, signal, attnupd, unreported>>

\* device_attention, called by the thread of an operator's console.
Attention(d) ==
    /\ d \in Console /\ ~attnupd
    /\ d \notin busy /\ FlagsOf(d) = {}
    /\ QueueInterrupt(<<d, "attn">>)
    /\ attnupd' = TRUE
    /\ UNCHANGED <<devvars, ic, req, cpuvars, pswvars, signal, unreported>>

AttnUpd ==
    /\ attnupd /\ IntlockFree
    /\ UpdateIc
    /\ attnupd' = FALSE
    /\ UNCHANGED <<devvars, intvars, req, cpuvars, pswvars, unreported>>

-----------------------------------------------------------------------------
(* The specification *)

Interrupts == PickInterrupt \/ TakeInterrupt \/ EnterWait \/ Wake
              \/ OtherInterrupt \/ SetPsw

Starting == Schedule \/ ScheduleFail \/ SyncDone \/ SyncRetry
            \/ \E d \in Device, r \in Req : StartioAsync(d, r) \/ StartioSync(d, r)

Execute(r) == ChainBegin(r) \/ Pci(r) \/ PciUpd(r) \/ Ccw(r) \/ RetrySync(r)
              \/ ChainEnd(r) \/ EndUpd(r)

Instruction(d) == TestIoPending(d) \/ HaltIoBusy(d) \/ HaltIoIdle(d)

Next ==
    \/ Interrupts
    \/ Starting
    \/ \E r \in Req : Execute(r)
    \/ \E d \in Device : Instruction(d) \/ Attention(d)
    \/ CpuUpd \/ AttnUpd

Spec == Init /\ [][Next]_vars

\* Threads that can take a step take one.  A thread that wants intlock while
\* the CPU takes interrupts gets it between two of them, hence the strong
\* fairness.  Nothing is assumed of what the program does next.
Fairness ==
    /\ WF_vars(PickInterrupt) /\ WF_vars(TakeInterrupt)
    /\ WF_vars(Wake) /\ WF_vars(CpuUpd)
    /\ WF_vars(Schedule \/ ScheduleFail) /\ WF_vars(SyncDone) /\ WF_vars(SyncRetry)
    /\ \A r \in Req : WF_vars(Execute(r)) /\ SF_vars(PciUpd(r)) /\ SF_vars(EndUpd(r))
    /\ SF_vars(AttnUpd)

FairSpec == Spec /\ Fairness

-----------------------------------------------------------------------------
(* Properties *)

DevicesTypeOK ==
    /\ busy \subseteq Device /\ startpending \subseteq Device /\ active \subseteq Device
    /\ reserved \subseteq Reservable /\ halted \subseteq Device
    /\ unreported \subseteq Device

InterruptsTypeOK == flags \subseteq IoInt /\ iointq \in Seq(IoInt)

RequestsTypeOK ==
    req \in [Req -> [pc : ReqPc, dev : Device \cup {NoDev}, ccw : 0..MaxCcw,
                     sync : BOOLEAN, retry : BOOLEAN, hasty : BOOLEAN]]

CpuTypeOK ==
    /\ cpupc \in CpuPc /\ cpureq \in Req \cup {NoReq} /\ cpuio \in IoInt \cup {NoIo}
    /\ mask \subseteq Channel

SwitchesTypeOK ==
    /\ ic \in BOOLEAN /\ wait \in BOOLEAN /\ signal \in BOOLEAN /\ attnupd \in BOOLEAN

\* Every variable has its type: requests, the queue and the sets of devices
\* range over what their declarations in hstructs.h allow.
TypeOK ==
    DevicesTypeOK /\ InterruptsTypeOK /\ RequestsTypeOK /\ CpuTypeOK /\ SwitchesTypeOK

\* A request whose channel program has not yet given up the device.
InFlight(r) == req[r].pc \in ReqPc \ {"free", "endupd", "done"}

\* No two channel programs are ever in flight on one device, whatever happens
\* between SIO, the scheduler, a synchronous attempt and its retry.
ExclusiveChain ==
    \A r, s \in Req : InFlight(r) /\ InFlight(s) /\ req[r].dev = req[s].dev => r = s

\* dev->busy is on exactly while some request on the device has yet to end:
\* a device reported busy is one that will come free by itself.
NoPhantomBusy ==
    busy = {req[r].dev : r \in {s \in Req : InFlight(s)}}

\* A pending flag that TIO would report has its entry on sysblk.iointq, so
\* clearing it clears the interrupt too.
FlagQueued == \A io \in flags : Listed(iointq, io)

\* sysblk.iointq is in order of priority and holds no interrupt twice; the
\* search of QUEUE_IO_INTERRUPT relies on the first to ensure the second.
QueueOrdered ==
    \A i, j \in 1..Len(iointq) : i < j =>
        /\ Priority[iointq[i][1]] <= Priority[iointq[j][1]]
        /\ iointq[i] # iointq[j]

\* The status in dev->csw stays on the queue until it is seen: no HIO, SIO, PCI
\* or attention in between takes its interrupt away.
EndQueued == \A d \in unreported : Listed(iointq, <<d, "io">>)

\* The only end that can write over a status not seen is that of a program
\* whose SIO was accepted while that status was pending.
EndOverwrittenByHasty ==
    \A r \in Req : InFlight(r) /\ req[r].dev \in unreported => req[r].hasty

\* No ending status is lost behind the program's back: it waits on sysblk.iointq
\* until the CPU takes it or TIO clears it, or until the program has started the
\* device again over it, which startio allows, and that start has ended.
NoLostEnd == EndQueued /\ EndOverwrittenByHasty

\* TIO answers "available", and SIO would be accepted on it, only when the
\* last channel program is over and its ending status has been seen.
AvailableIsFree ==
    \A d \in Device : TestedAvailable(d) =>
        /\ d \notin unreported
        /\ \A r \in Req : InFlight(r) => req[r].dev # d

\* Whoever changed the queue since IC_IOPENDING was last set will still set it.
UpdatePending ==
    \/ \E r \in Req : At(r, {"pciupd", "endupd"})
    \/ cpupc \in {"upd", "take"}
    \/ attnupd

\* IC_IOPENDING is never off, with no update to come, while an interrupt is
\* queued; nor on while none is, which would cost the CPU a futile search.
SummaryAccurate == ic = (iointq # <<>>) \/ UpdatePending

\* The CPU never sleeps in the wait state on an interrupt it is enabled for,
\* unless it has been signalled or an update that signals it is to come.
NoLostWakeup == cpupc = "wait" /\ Enabled # {} => signal \/ UpdatePending

\* The interrupt present_io_interrupt picked is still queued when it has got
\* dev->lock: with one CPU its retry path is never needed.
PickStable == cpupc = "take" => Listed(iointq, cpuio)

\* Every accepted start ends, synchronous attempts given up included: the
\* request runs its channel program and gives up the device.
StartedEnds == \A r \in Req : InFlight(r) ~> ~InFlight(r)

\* A CPU waiting, enabled for a queued interrupt, is woken.
WaitingWoken == (cpupc = "wait" /\ Enabled # {}) ~> cpupc # "wait"

\* What the scheduler has of each device: a request handed to it and not begun,
\* or one its thread is executing.  Synchronous attempts are none of its business.
Delegated(d, pcs) == \E r \in Req : At(r, pcs) /\ ~req[r].sync /\ req[r].dev = d

Stage == [d \in Device |->
    IF Delegated(d, {"queued"}) THEN "queued"
    ELSE IF Delegated(d, {"ccw", "pciupd", "exec", "end"}) THEN "running" ELSE "idle"]

Scheduler == INSTANCE IoScheduler WITH Device <- Device, st <- Stage

\* The channel and a scheduler agree on their interface: whatever the CPU, a
\* synchronous attempt, a reserve or a halt do, a device has at most one request
\* with the scheduler, and each one is executed to its end before the next.
UsesScheduler == Scheduler!FairSpec
=============================================================================
