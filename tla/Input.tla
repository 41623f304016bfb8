------------------------------- MODULE Input -------------------------------
(***************************************************************************)
(* The event loop of input/input.c and the timers of                       *)
(* input/timerfd-callbacks.h: an array of input descriptors, a list of     *)
(* timer descriptors, and waitForInput, which selects on both, reads one   *)
(* device until the kernel has no more, or else reports one timer.         *)
(*                                                                         *)
(* The module runs in one thread, so its functions are atomic but for      *)
(* waitForInput, between whose system calls devices send events and        *)
(* disappear, timers expire and the fake event generator dies.  An event   *)
(* is its number.  Calls that fail without a change are left out.          *)
(*                                                                         *)
(* X_... before X is a variant of X with a plausible bug.                  *)
(***************************************************************************)
EXTENDS Integers, Sequences, FiniteSets, FiniteSetsExt

CONSTANTS
  FdSetSize,  \* FD_SETSIZE: the descriptors select can be told of
  Fds,        \* those the kernel may hand out
  Slots,      \* the length of inputfds
  Nodes,      \* the timer nodes malloc may hand out, positive numbers
  QueueSize,  \* the number of events waitForInput's buffer holds
  MaxEvents,  \* bound: events of a behaviour
  MaxChurn    \* bound: opens, failed reads and deaths of generators

ASSUME InputAssumption ==
  /\ {FdSetSize, Slots, QueueSize} \subseteq Nat \ {0}
  /\ Fds \subseteq 0 .. FdSetSize - 1 /\ Nodes \subseteq Nat \ {0}
  /\ {MaxEvents, MaxChurn} \subseteq Nat

VARIABLES
  nfds, inputfds, fd_idx, fake_ev_generator_pid,
  head, tail, node,   \* timerfds: its ends, and [fd, next, prev] of each node
  kind,       \* what each descriptor is: closed, device, pipe or timer
  queue,      \* the events the kernel holds for it
  due,        \* whether its device is gone, its writer dead, or it expired
  writer,     \* the generator that writes to a pipe
  generators, \* the generators that run
  at,         \* waitForInput: out of it, in select, after it, in read
  ready,      \* what select returned
  i,          \* the slot being read
  input_queue, queue_pos, ev_count, ev_array,
  events, churn,   \* how many so far
  delivered, lost, \* (history) the events returned, dropped
  forgotten,       \* (history) generators whose pid was overwritten
  told,            \* (history) the nodes reported and not cleared since
  eof              \* (history) whether a read returned 0

array   == <<nfds, inputfds, fd_idx>>
timers  == <<head, tail, node>>
gens    == <<fake_ev_generator_pid, generators, forgotten>>
kernel  == <<kind, queue, due, writer>>
reading == <<i, input_queue, queue_pos, ev_count, ev_array>>
world   == <<events, churn>>
log     == <<delivered, lost, told, eof>>
vars    == <<array, timers, gens, kernel, at, ready, reading, world, log>>

Index  == 0 .. Slots - 1
NoNode == [fd |-> -1, next |-> 0, prev |-> 0]
Kinds  == {"closed", "device", "pipe", "timer"}

TypeOK ==
  /\ inputfds \in [Index -> Fds \cup {-1}] /\ fd_idx \in 0 .. Slots
  /\ nfds \in {0} \cup {fd + 1 : fd \in Fds}
  /\ fake_ev_generator_pid \in {-1} \cup 1 .. MaxChurn
  /\ generators \subseteq 1 .. MaxChurn /\ forgotten \subseteq 1 .. MaxChurn
  /\ {head, tail} \subseteq Nodes \cup {0}
  /\ node \in [Nodes -> [fd : Fds \cup {-1}, next : Nodes \cup {0},
                         prev : Nodes \cup {0}]]
  /\ kind \in [Fds -> Kinds] /\ due \in [Fds -> BOOLEAN]
  /\ queue \in [Fds -> Seq(1 .. MaxEvents)]
  /\ writer \in [Fds -> 0 .. MaxChurn]
  /\ at \in {"lua", "select", "scan", "read"} /\ ready \subseteq Fds
  /\ i \in Index /\ queue_pos \in 0 .. QueueSize /\ ev_count \in 0 .. QueueSize
  /\ input_queue \in [1 .. QueueSize -> 0 .. MaxEvents]
  /\ ev_array \in Seq(0 .. MaxEvents)
  /\ events \in 0 .. MaxEvents /\ churn \in 0 .. MaxChurn
  /\ delivered \subseteq 1 .. MaxEvents /\ lost \subseteq 1 .. MaxEvents
  /\ told \subseteq Nodes /\ eof \in BOOLEAN

Init ==
  /\ nfds = 0 /\ inputfds = [s \in Index |-> -1] /\ fd_idx = 0
  /\ fake_ev_generator_pid = -1 /\ generators = {} /\ forgotten = {}
  /\ head = 0 /\ tail = 0 /\ node = [n \in Nodes |-> NoNode]
  /\ kind = [fd \in Fds |-> "closed"] /\ queue = [fd \in Fds |-> <<>>]
  /\ due = [fd \in Fds |-> FALSE] /\ writer = [fd \in Fds |-> 0]
  /\ at = "lua" /\ ready = {}
  /\ i = 0 /\ input_queue = [k \in 1 .. QueueSize |-> 0]
  /\ queue_pos = 0 /\ ev_count = 0 /\ ev_array = <<>>
  /\ events = 0 /\ churn = 0
  /\ delivered = {} /\ lost = {} /\ told = {} /\ eof = FALSE

-----------------------------------------------------------------------------
(* The timer list. *)

\* The nodes met by a walk along the list that ends at one of stops.
Walked(stops) ==
  {n \in Nodes :
     \A S \in SUBSET Nodes :
       /\ head # 0 => head \in S
       /\ \A m \in S \ stops : node[m].next # 0 => node[m].next \in S
       => n \in S}

Listed == Walked({})

timerfd_list_grow(n, fd) ==
  /\ head' = IF head = 0 THEN n ELSE head
  /\ tail' = n
  /\ node' = [m \in Nodes |->
                CASE m = n                -> [fd |-> fd, next |-> 0, prev |-> tail]
                  [] m # n /\ m = tail    -> [node[m] EXCEPT !.next = n]
                  [] OTHER                -> node[m]]

\* Forgets that the last node may be deleted.
timerfd_list_delete_node_KeepsTail(n) ==
  LET prev == node[n].prev  next == node[n].next
  IN  /\ head' = IF prev = 0 THEN next ELSE head
      /\ tail' = tail
      /\ node' = [m \in Nodes |->
                    CASE m = n            -> NoNode
                      [] m # n /\ m = prev -> [node[m] EXCEPT !.next = next]
                      [] m # n /\ m = next -> [node[m] EXCEPT !.prev = prev]
                      [] OTHER             -> node[m]]

timerfd_list_delete_node(n) ==
  LET prev == node[n].prev  next == node[n].next
  IN  /\ head' = IF prev = 0 THEN next ELSE head
      /\ tail' = IF next = 0 THEN prev ELSE tail
      /\ node' = [m \in Nodes |->
                    CASE m = n            -> NoNode
                      [] m # n /\ m = prev -> [node[m] EXCEPT !.next = next]
                      [] m # n /\ m = next -> [node[m] EXCEPT !.prev = prev]
                      [] OTHER             -> node[m]]

-----------------------------------------------------------------------------
(* The descriptors. *)

InputFds(fds, count) == {fds[s] : s \in 0 .. count - 1}

\* The timers are left out.
computeNfds_InputsOnly(inputs, timerfds) == Max({0} \cup {fd + 1 : fd \in inputs})

\* The highest descriptor of the inputs and the timers, plus 1.
computeNfds(inputs, timerfds) == Max({0} \cup {fd + 1 : fd \in inputs \cup timerfds})

TimerFds == {node[n].fd : n \in Listed}

\* The kernel frees descriptors, and the events they hold are gone.
Closes(fds) ==
  /\ kind' = [fd \in Fds |-> IF fd \in fds THEN "closed" ELSE kind[fd]]
  /\ queue' = [fd \in Fds |-> IF fd \in fds THEN <<>> ELSE queue[fd]]
  /\ due' = [fd \in Fds |-> due[fd] /\ fd \notin fds]
  /\ UNCHANGED writer

EventsOf(fds) == UNION {{queue[fd][k] : k \in DOMAIN queue[fd]} : fd \in fds}

Opens(fd, what, pid) ==
  /\ kind[fd] = "closed" /\ churn < MaxChurn
  /\ kind' = [kind EXCEPT ![fd] = what]
  /\ writer' = [writer EXCEPT ![fd] = pid]
  /\ churn' = churn + 1
  /\ UNCHANGED <<queue, due, events>>

\* A new input descriptor takes the next slot.
TakesSlot(fd) ==
  /\ fd_idx < Slots
  /\ inputfds' = [inputfds EXCEPT ![fd_idx] = fd]
  /\ fd_idx' = fd_idx + 1
  /\ nfds' = computeNfds(InputFds(inputfds, fd_idx) \cup {fd}, TimerFds)

(* A device, opened here or (openInputFD) by the caller.  An unusable name *)
(* or descriptor, or a full array, changes nothing.                        *)
openInputDevice(fd) ==
  /\ at = "lua" /\ TakesSlot(fd) /\ Opens(fd, "device", 0)
  /\ UNCHANGED <<timers, gens, at, ready, reading, log>>

\* The fake events come from a process of their own.
openFakeEvents(fd) ==
  /\ at = "lua" /\ TakesSlot(fd)
  /\ LET childpid == churn + 1
     IN  /\ Opens(fd, "pipe", childpid)
         /\ generators' = generators \cup {childpid}
         /\ forgotten' = forgotten \cup ({fake_ev_generator_pid} \ {-1})
         /\ fake_ev_generator_pid' = childpid
  /\ UNCHANGED <<timers, at, ready, reading, log>>

\* The last descriptor keeps its copy in the freed slot.
repackFdArray_KeepsLast(s) ==
  /\ inputfds' = [t \in Index |-> IF t >= s /\ t < fd_idx - 1
                                  THEN inputfds[t + 1] ELSE inputfds[t]]
  /\ fd_idx' = fd_idx - 1
  /\ nfds' = computeNfds(InputFds(inputfds', fd_idx'), TimerFds)

repackFdArray(s) ==
  /\ inputfds' = [t \in Index |-> CASE t >= s /\ t < fd_idx - 1 -> inputfds[t + 1]
                                    [] t = fd_idx - 1           -> -1
                                    [] OTHER                    -> inputfds[t]]
  /\ fd_idx' = fd_idx - 1
  /\ nfds' = computeNfds(InputFds(inputfds', fd_idx'), TimerFds)

closeByIndex(s) == repackFdArray(s) /\ Closes({inputfds[s]})

\* A descriptor that is not in the array is reported and left alone.
closeByFd(fd) ==
  /\ at = "lua" /\ fd \in InputFds(inputfds, fd_idx)
  /\ closeByIndex(Min({s \in 0 .. fd_idx - 1 : inputfds[s] = fd}))
  /\ lost' = lost \cup EventsOf({fd})
  /\ UNCHANGED <<timers, gens, at, ready, reading, world, delivered, told, eof>>

KillGenerator ==
  /\ generators' = generators \ {fake_ev_generator_pid}
  /\ fake_ev_generator_pid' = -1
  /\ UNCHANGED forgotten

(* Every input from the last to the first, every timer, the generator.     *)
(* The last computeNfds still sees the timers.                             *)
closeAllInputDevices ==
  /\ at = "lua"
  /\ Closes(InputFds(inputfds, fd_idx) \cup TimerFds)
  /\ lost' = lost \cup EventsOf(InputFds(inputfds, fd_idx))
  /\ inputfds' = [s \in Index |-> -1] /\ fd_idx' = 0
  /\ nfds' = IF fd_idx = 0 THEN nfds ELSE computeNfds({}, TimerFds)
  /\ head' = 0 /\ tail' = 0
  /\ node' = [n \in Nodes |-> IF n \in Listed THEN NoNode ELSE node[n]]
  /\ KillGenerator
  /\ told' = {}
  /\ UNCHANGED <<at, ready, reading, world, delivered, eof>>

\* malloc hands out any free node; which one makes no difference.
setTimer(n, fd) ==
  /\ at = "lua" /\ node[n] = NoNode
  /\ \A m \in Nodes : node[m] = NoNode => n <= m
  /\ Opens(fd, "timer", 0)
  /\ timerfd_list_grow(n, fd)
  /\ nfds' = computeNfds(InputFds(inputfds, fd_idx), TimerFds \cup {fd})
  /\ UNCHANGED <<inputfds, fd_idx, gens, at, ready, reading, log>>

\* The caller passes a node it has not cleared yet.
clearTimer(n) ==
  /\ at = "lua" /\ node[n] # NoNode
  /\ timerfd_list_delete_node(n)
  /\ Closes({node[n].fd})
  /\ nfds' = computeNfds(InputFds(inputfds, fd_idx), TimerFds \ {node[n].fd})
  /\ told' = told \ {n}
  /\ UNCHANGED <<inputfds, fd_idx, gens, at, ready, reading, world, delivered,
                 lost, eof>>

-----------------------------------------------------------------------------
(* waitForInput. *)

WaitStarts ==
  /\ at = "lua"
  /\ at' = "select"
  /\ UNCHANGED <<array, timers, gens, kernel, ready, reading, world, log>>

Readable(fd) == queue[fd] # <<>> \/ due[fd]

\* What select looks at: the descriptors below nfds.
Selected == {fd \in InputFds(inputfds, fd_idx) \cup TimerFds : fd < nfds}

SelectReturns ==
  /\ at = "select"
  /\ ready' = {fd \in Selected : Readable(fd)}
  /\ ready' # {}
  /\ at' = "scan"
  /\ UNCHANGED <<array, timers, gens, kernel, reading, world, log>>

\* A timeout or a signal, when nothing is ready.
SelectEnds ==
  /\ at = "select" /\ ~\E fd \in Selected : Readable(fd)
  /\ at' = "lua"
  /\ UNCHANGED <<array, timers, gens, kernel, ready, reading, world, log>>

ReadySlots == {s \in 0 .. fd_idx - 1 : inputfds[s] \in ready}

ReadStarts ==
  /\ at = "scan" /\ ReadySlots # {}
  /\ at' = "read"
  /\ i' = Min(ReadySlots)
  /\ queue_pos' = 0 /\ ev_count' = 0 /\ ev_array' = <<>>
  /\ UNCHANGED <<array, timers, gens, kernel, ready, input_queue, world, log>>

\* No input: the first expired timer is reported, to be cleared by the caller.
ReportTimer(n) ==
  /\ at = "scan" /\ ReadySlots = {}
  /\ LET expired == {m \in Nodes : node[m].fd \in ready}
     IN  n \in expired \cap Walked(expired)
  /\ at' = "lua" /\ ready' = {}
  /\ told' = told \cup {n}
  /\ UNCHANGED <<array, timers, gens, kernel, reading, world, delivered, lost,
                 eof>>

Buffered == {input_queue[k] : k \in 1 .. ev_count}
Pushed   == {ev_array[k] : k \in DOMAIN ev_array}

\* The first n events of the buffer go to the end of the array.
drain_input_queue(n) == ev_array \o SubSeq(input_queue, 1, n)

\* The count is not reset when the buffer is drained.
read_CountNotReset(fd, n) ==
  /\ queue' = [queue EXCEPT ![fd] = SubSeq(@, n + 1, Len(@))]
  /\ input_queue' = [k \in 1 .. QueueSize |->
                       IF k \in queue_pos + 1 .. queue_pos + n
                       THEN queue[fd][k - queue_pos] ELSE input_queue[k]]
  /\ IF queue_pos + n = QueueSize
     THEN /\ ev_array' = ev_array \o input_queue'
          /\ queue_pos' = 0 /\ ev_count' = QueueSize
     ELSE /\ queue_pos' = queue_pos + n /\ ev_count' = ev_count + n
          /\ UNCHANGED ev_array

\* n events are read; a full buffer is drained at once.
read(fd, n) ==
  /\ queue' = [queue EXCEPT ![fd] = SubSeq(@, n + 1, Len(@))]
  /\ input_queue' = [k \in 1 .. QueueSize |->
                       IF k \in queue_pos + 1 .. queue_pos + n
                       THEN queue[fd][k - queue_pos] ELSE input_queue[k]]
  /\ IF queue_pos + n = QueueSize
     THEN /\ ev_array' = ev_array \o SubSeq(input_queue', 1, ev_count + n)
          /\ queue_pos' = 0 /\ ev_count' = 0
     ELSE /\ queue_pos' = queue_pos + n /\ ev_count' = ev_count + n
          /\ UNCHANGED ev_array

Reads ==
  LET fd == inputfds[i]
      n  == Min({Len(queue[fd]), QueueSize - queue_pos})
  IN  /\ at = "read" /\ n > 0 /\ ~(due[fd] /\ kind[fd] = "device")
      /\ read(fd, n)
      /\ UNCHANGED <<array, timers, gens, kind, due, writer, at, ready, i,
                     world, log>>

\* The locals of the call are gone.
Leaves == at' = "lua" /\ ready' = {} /\ ev_array' = <<>> /\ ev_count' = 0
          /\ queue_pos' = 0 /\ i' = 0 /\ input_queue' = [k \in 1 .. QueueSize |-> 0]

\* EAGAIN: the rest is drained and the array returned.
ReadEnds ==
  /\ at = "read" /\ queue[inputfds[i]] = <<>> /\ ~due[inputfds[i]]
  /\ LET returned == drain_input_queue(ev_count)
     IN  delivered' = delivered \cup {returned[k] : k \in DOMAIN returned}
  /\ Leaves
  /\ UNCHANGED <<array, timers, gens, kernel, world, lost, told, eof>>

\* ENODEV: the device is closed, and what was read of it dropped.
ReadFindsNoDevice ==
  /\ at = "read" /\ kind[inputfds[i]] = "device" /\ due[inputfds[i]]
  /\ closeByIndex(i)
  /\ lost' = lost \cup Pushed \cup Buffered \cup EventsOf({inputfds[i]})
  /\ Leaves
  /\ UNCHANGED <<timers, gens, world, delivered, told, eof>>

\* A read of 0 bytes: the writer of the pipe is gone.
ReadFindsEnd ==
  /\ at = "read" /\ kind[inputfds[i]] = "pipe"
  /\ due[inputfds[i]] /\ queue[inputfds[i]] = <<>>
  /\ eof' = TRUE
  /\ lost' = lost \cup Pushed \cup Buffered
  /\ Leaves
  /\ UNCHANGED <<array, timers, gens, kernel, world, delivered, told>>

\* Any other error.
ReadFails ==
  /\ at = "read" /\ churn < MaxChurn
  /\ churn' = churn + 1
  /\ lost' = lost \cup Pushed \cup Buffered
  /\ Leaves
  /\ UNCHANGED <<array, timers, gens, kernel, events, delivered, told, eof>>

-----------------------------------------------------------------------------
(* The kernel and the generator. *)

Event(fd) ==
  /\ kind[fd] \in {"device", "pipe"} /\ ~due[fd] /\ events < MaxEvents
  /\ events' = events + 1
  /\ queue' = [queue EXCEPT ![fd] = Append(@, events + 1)]
  /\ UNCHANGED <<array, timers, gens, kind, due, writer, at, ready, reading,
                 churn, log>>

\* A device is unplugged, a timer expires.
Ends(fd) ==
  /\ kind[fd] \in {"device", "timer"} /\ ~due[fd]
  /\ due' = [due EXCEPT ![fd] = TRUE]
  /\ UNCHANGED <<array, timers, gens, kind, queue, writer, at, ready, reading,
                 world, log>>

(* generateFakeEvent returns: it cannot listen, or loses what it listens   *)
(* to.  A pipe that is still open has no writer then.                      *)
GeneratorEnds(pid) ==
  /\ pid \in generators /\ churn < MaxChurn
  /\ churn' = churn + 1
  /\ generators' = generators \ {pid}
  /\ due' = [fd \in Fds |-> due[fd] \/ (kind[fd] = "pipe" /\ writer[fd] = pid)]
  /\ UNCHANGED <<array, timers, fake_ev_generator_pid, forgotten, kind, queue,
                 writer, at, ready, reading, events, log>>

Wait == \/ WaitStarts \/ SelectReturns \/ ReadStarts
        \/ \E n \in Nodes : ReportTimer(n)
        \/ Reads \/ ReadEnds \/ ReadFindsNoDevice \/ ReadFindsEnd

Next ==
  \/ Wait \/ SelectEnds \/ ReadFails
  \/ closeAllInputDevices
  \/ \E n \in Nodes : clearTimer(n)
  \/ \E fd \in Fds :
       \/ openInputDevice(fd) \/ openFakeEvents(fd) \/ closeByFd(fd)
       \/ Event(fd) \/ Ends(fd)
       \/ \E n \in Nodes : setTimer(n, fd)
  \/ \E pid \in generators : GeneratorEnds(pid)

(* The interface's loop calls waitForInput again and again, and the calls  *)
(* end when something is ready.  A timer it is told of is single-shot: the *)
(* loop clears it before or after other calls, but does not forget to.     *)
Spec ==
  /\ Init /\ [][Next]_vars /\ WF_vars(Wait)
  /\ \A n \in Nodes : SF_vars(n \in told /\ clearTimer(n))

-----------------------------------------------------------------------------
(* Properties *)

(* The array has no hole, and the module holds no descriptor that was      *)
(* closed, and perhaps given to someone else (repackFdArray, clearTimer).  *)
(* select is told of every input and every timer: none can be ready        *)
(* without waking waitForInput (computeNfds).  The only generators that    *)
(* may outlive closeAll are those whose pid a second open overwrote        *)
(* (openInputDevice, closeAllInputDevices).                                *)
DescriptorsConsistent ==
  /\ TypeOK
  /\ \A s \in Index : inputfds[s] # -1 <=> s < fd_idx
  /\ \A s, t \in 0 .. fd_idx - 1 : s # t => inputfds[s] # inputfds[t]
  /\ \A fd \in Fds : /\ kind[fd] \in {"device", "pipe"} <=>
                          fd \in InputFds(inputfds, fd_idx)
                     /\ kind[fd] = "timer" <=> fd \in TimerFds
  /\ InputFds(inputfds, fd_idx) \cup TimerFds = Selected
  /\ generators \subseteq {fake_ev_generator_pid} \cup forgotten

(* The timers form one list, the same in both directions, of all the nodes *)
(* in use (timerfd_list_grow, timerfd_list_delete_node).                   *)
TimerListIntact ==
  /\ Listed = {n \in Nodes : node[n] # NoNode}
  /\ \A n \in Listed :
       /\ {node[n].next, node[n].prev} \subseteq Listed \cup {0}
       /\ node[n].prev = 0 <=> n = head
       /\ node[n].next = 0 <=> n = tail
       /\ \A m \in Listed : node[n].next = m <=> node[m].prev = n
  /\ {head, tail} \subseteq Listed \cup {0} /\ (head = 0 <=> tail = 0)

(* Of the events of the devices none is returned twice or out of order,    *)
(* and none disappears but with its device or a failed read (waitForInput, *)
(* drain_input_queue).                                                     *)
EventsKept ==
  LET coming == ev_array \o SubSeq(input_queue, 1, ev_count)
                  \o IF at = "read" THEN queue[inputfds[i]] ELSE <<>>
      held   == EventsOf(Fds) \cup Pushed \cup Buffered
  IN  /\ \A j, k \in DOMAIN coming : j < k => coming[j] < coming[k]
      /\ held \cup delivered \cup lost = 1 .. events
      /\ held \cap (delivered \cup lost) = {} /\ delivered \cap lost = {}

(* Every expired timer is reported to Lua or cleared, however much input   *)
(* comes first and however many expired timers are ahead of it in the      *)
(* list, of which waitForInput reports only the first one; unless the      *)
(* generator died (waitForInput).                                          *)
TimerReported ==
  \A n \in Nodes :
    [](node[n] # NoNode /\ due[node[n].fd]
        => <>(node[n] = NoNode \/ n \in told \/ eof))
=============================================================================
