----------------------------- MODULE Interception -----------------------------
(***************************************************************************)
(* The wrappers that stand between an application and its libraries        *)
(* (posix.cpp, mpi.cpp) and drive the tracer.  All share one flag:         *)
(* omniscio_tracing_enabled is cleared for as long as a traced operation   *)
(* or an MPI call runs, so that the I/O they do themselves (log files,     *)
(* the MPI library) is not taken for the application's.  A wrapper keeps   *)
(* the flag it found in a local variable, here in its frame on the stack,  *)
(* and puts it back before it returns.                                     *)
(*                                                                         *)
(* The wrappers of one interface differ only in the names of what they     *)
(* call: read, pread, pread64, fread are "read", and so on.  Every module  *)
(* of the process calls the same wrappers; the application does when the   *)
(* stack is empty, and a library from inside the wrapper on top.           *)
(***************************************************************************)
EXTENDS Tracer

CONSTANTS Api,        \* "posix" or "libc", or both
          Handle,     \* what they hand out: descriptors above 2, streams
          MaxInits,   \* bound: how often init is called
          MaxDepth    \* bound: how many wrappers run inside each other

ASSUME ApiAssumption == Api \subseteq {"posix", "libc"}
ASSUME BoundsAssumption == MaxInits \in Nat /\ MaxDepth \in Nat

VARIABLES flag,       \* omniscio_tracing_enabled
          allowed,    \* interface -> allowed_fds or allowed_streams
          stack,      \* the wrappers in progress, innermost first
          os,         \* interface -> (open handle -> what is known of the file)
          inits,      \* how often init was called
          bracket,    \* is the application between a start and an end of its own?
          leaked      \* history variable: interface -> handles closed untraced
                      \* while they were allowed

wrappers == <<flag, allowed, stack, os, inits, bracket, leaked>>
vars == <<tracer, wrappers>>

NoHandle == "none"    \* -1, or the null stream
NoApi == "none"

Init ==
  /\ TracerInit
  /\ flag = FALSE
  /\ allowed = [p \in Api |-> {}]
  /\ stack = <<>>
  /\ os = [p \in Api |-> Empty]
  /\ inits = 0 /\ bracket = FALSE
  /\ leaked = [p \in Api |-> {}]

\* A wrapper of posix.cpp goes through the phases start, call, end; MPI calls
\* and the opening and closing of log files are one phase, untraced.
Frame(op, p, h) ==
  [op |-> op, api |-> p, h |-> h, old |-> flag, sym |-> NoTrace,
   phase |-> IF op \in Operation THEN "start" ELSE "untraced"]

Running(phase) == stack # <<>> /\ Head(stack).phase = phase

\* OMNISCIO_UNTRACED_START.
UntracedFaulty(frame) == stack' = <<frame>> \o stack /\ UNCHANGED flag

Untraced(frame) == stack' = <<frame>> \o stack /\ flag' = FALSE

\* OMNISCIO_UNTRACED_END.
RestoredFaulty(frame) == TRUE

Restored(frame) == frame.old

-----------------------------------------------------------------------------
(* The calls of the application to omniscio.h.                             *)

\* MPI_Init, once MPI has started, and omniscio_init itself: tracing is on from
\* the start, and the log files are opened untraced.
Initialize ==
  /\ stack = <<>> /\ inits < MaxInits
  /\ inits' = inits + 1
  /\ InitTracer
  /\ IF disabled THEN flag' = TRUE /\ UNCHANGED stack
     ELSE flag' = FALSE
          /\ stack' = <<[Frame("init", NoApi, NoHandle) EXCEPT !.old = TRUE]>>
  /\ UNCHANGED <<allowed, os, bracket, leaked>>

\* MPI_Finalize, and omniscio_finalize itself, which does nothing when tracing
\* is disabled: the log files are closed untraced.
Finalize ==
  /\ stack = <<>> /\ enabled
  /\ Untraced(Frame("finalize", NoApi, NoHandle))
  /\ UNCHANGED <<tracer, allowed, os, inits, bracket, leaked>>

Finalized ==
  /\ Running("untraced") /\ Head(stack).op = "finalize"
  /\ flag' = FALSE
  /\ FinalizeTracer
  /\ stack' = Tail(stack)
  /\ UNCHANGED <<allowed, os, inits, bracket, leaked>>

\* An operation that no wrapper covers is traced by hand.
BracketStart ==
  /\ stack = <<>> /\ ~bracket /\ inits > 0
  /\ \E op \in Operation, s \in Traces : Start(op, s)
  /\ bracket' = TRUE
  /\ UNCHANGED <<flag, allowed, stack, os, inits, leaked>>

BracketEnd ==
  /\ stack = <<>> /\ bracket
  /\ End
  /\ bracket' = FALSE
  /\ UNCHANGED <<flag, allowed, stack, os, inits, leaked>>

AskNext ==
  /\ stack = <<>>
  /\ PredictNext
  /\ UNCHANGED wrappers

-----------------------------------------------------------------------------
(* The wrappers of posix.cpp.  A file is regular or not, and its path is   *)
(* one below /dev/ or not: an open looks at the path, other calls at the   *)
(* file (POSIX only) and at the set of allowed handles.                    *)

Without(f, x) == [y \in DOMAIN f \ {x} |-> f[y]]

Caller(s) == IF s = <<>> THEN "application" ELSE "library"

\* The files that the caller has open: it does not touch the other's.
Mine(p) == {h \in DOMAIN os[p] : os[p][h].by = Caller(stack)}

\* The condition of the wrappers other than open.
TracedHandle(p, h) == h \in allowed[p] /\ (p = "posix" => os[p][h].regular)

\* open, open64, creat, creat64, fopen, fopen64, on a path not below /dev/.
EnterOpen(p) ==
  /\ flag /\ Len(stack) < MaxDepth
  /\ Untraced(Frame("open", p, NoHandle))
  /\ UNCHANGED <<tracer, allowed, os, inits, bracket, leaked>>

\* read, pread, fread, write, pwrite, fwrite, close, fclose.
Enter(op, p, h) ==
  /\ flag /\ Len(stack) < MaxDepth
  /\ h \in Mine(p) /\ TracedHandle(p, h)
  /\ Untraced(Frame(op, p, h))
  /\ UNCHANGED <<tracer, allowed, os, inits, bracket, leaked>>

\* The call of omniscio_*_start, whose result no wrapper looks at.
StartOperation ==
  /\ Running("start")
  /\ \E s \in Traces :
       /\ Start(Head(stack).op, s)
       /\ stack' = [stack EXCEPT ![1].phase = "call",
                                 ![1].sym = IF Accepted THEN s ELSE NoTrace]
  /\ UNCHANGED <<flag, allowed, os, inits, bracket, leaked>>

\* The C library's function.  Nothing is known of a file but whether it is
\* regular, who opened it, and whether through a traced call.
OpenFile(p, h, by, traced) ==
  \E regular \in BOOLEAN :
    os' = [os EXCEPT ![p] =
             Put(@, h, [regular |-> regular, by |-> by, traced |-> traced])]
CloseFile(p, h) == os' = [os EXCEPT ![p] = Without(@, h)]

CallLibrary(f) ==
  CASE f.op = "open" ->
         \E h \in (Handle \ DOMAIN os[f.api]) \cup {NoHandle} :
           /\ IF h = NoHandle THEN UNCHANGED os
              ELSE OpenFile(f.api, h, Caller(Tail(stack)), TRUE)
           /\ stack' = [stack EXCEPT ![1].phase = "end", ![1].h = h]
    [] f.op = "close" ->
         /\ CloseFile(f.api, f.h)
         /\ stack' = [stack EXCEPT ![1].phase = "end"]
    [] OTHER ->
         /\ stack' = [stack EXCEPT ![1].phase = "end"]
         /\ UNCHANGED os

RunOperation ==
  /\ Running("call")
  /\ CallLibrary(Head(stack))
  /\ UNCHANGED <<tracer, flag, allowed, inits, bracket, leaked>>

\* The call of omniscio_*_end, the set of allowed handles, and
\* OMNISCIO_UNTRACED_END.
EndCallFaulty(f) == IF f.h = NoHandle THEN UNCHANGED tracer ELSE End

EndCall(f) == End

AllowFaulty(f) == IF f.op = "open" THEN allowed[f.api] \cup {f.h} ELSE allowed[f.api]

Allow(f) == CASE f.op = "open"  -> allowed[f.api] \cup {f.h}
              [] f.op = "close" -> allowed[f.api] \ {f.h}
              [] OTHER          -> allowed[f.api]

EndOperation ==
  /\ Running("end")
  /\ LET f == Head(stack)
     IN  /\ EndCall(f)
         /\ allowed' = [allowed EXCEPT ![f.api] = Allow(f)]
         /\ leaked' = IF f.op \in {"open", "close"}
                      THEN [leaked EXCEPT ![f.api] = @ \ {f.h}] ELSE leaked
         /\ flag' = Restored(f)
  /\ stack' = Tail(stack)
  /\ UNCHANGED <<os, inits, bracket>>

\* A wrapper that traces nothing: the flag is clear, or the path or the file is
\* not one to trace.  Reads and writes change nothing here.
OpenDirectly(p) ==
  /\ \E h \in Handle \ DOMAIN os[p] : OpenFile(p, h, Caller(stack), FALSE)
  /\ UNCHANGED <<tracer, flag, allowed, stack, inits, bracket, leaked>>

CloseDirectly(p, h) ==
  /\ h \in Mine(p)
  /\ ~(flag /\ TracedHandle(p, h))
  /\ CloseFile(p, h)
  /\ leaked' = IF h \in allowed[p] THEN [leaked EXCEPT ![p] = @ \cup {h}] ELSE leaked
  /\ UNCHANGED <<tracer, flag, allowed, stack, inits, bracket>>

-----------------------------------------------------------------------------
(* The wrappers of mpi.cpp: the MPI library may call them again, and the   *)
(* wrappers of posix.cpp, before it returns.                               *)

MpiCall ==
  /\ inits > 0 /\ Len(stack) < MaxDepth
  /\ stack # <<>> => Head(stack).op = "mpi"
  /\ Untraced(Frame("mpi", NoApi, NoHandle))
  /\ UNCHANGED <<tracer, allowed, os, inits, bracket, leaked>>

\* They return as init does once the log files are open.
Return ==
  /\ Running("untraced") /\ Head(stack).op \in {"mpi", "init"}
  /\ flag' = Restored(Head(stack))
  /\ stack' = Tail(stack)
  /\ UNCHANGED <<tracer, allowed, os, inits, bracket, leaked>>

Next ==
  \/ Initialize \/ Finalize \/ Finalized \/ BracketStart \/ BracketEnd \/ AskNext
  \/ \E p \in Api :
       \/ EnterOpen(p) \/ OpenDirectly(p)
       \/ \E h \in Handle :
            \/ \E op \in Operation \ {"open"} : Enter(op, p, h)
            \/ CloseDirectly(p, h)
  \/ StartOperation \/ RunOperation \/ EndOperation
  \/ MpiCall \/ Return

Spec == Init /\ [][Next]_vars

-----------------------------------------------------------------------------
\* Type invariant.
Frames == [op : Operation \cup {"mpi", "init", "finalize"},
           api : Api \cup {NoApi}, h : Handle \cup {NoHandle}, old : BOOLEAN,
           phase : {"start", "call", "end", "untraced"},
           sym : Symbol \cup {NoTrace}]
Files == [regular : BOOLEAN, by : {"application", "library"}, traced : BOOLEAN]

TypeOK ==
  /\ TracerTypeOK
  /\ flag \in BOOLEAN /\ bracket \in BOOLEAN /\ inits \in Nat
  /\ allowed \in [Api -> SUBSET (Handle \cup {NoHandle})]
  /\ leaked \in [Api -> SUBSET (Handle \cup {NoHandle})]
  /\ stack \in Seq(Frames)
  /\ DOMAIN os = Api
  /\ \A p \in Api : DOMAIN os[p] \subseteq Handle
                    /\ \A h \in DOMAIN os[p] : os[p][h] \in Files

\* The flag, which every wrapper saves and restores through its own variable:
\* it is clear while any wrapper runs, and when none does it is what init and
\* finalize made it, however MPI calls and I/O calls were nested in between.
FlagFollows ==
  LET found == IF stack = <<>> THEN flag ELSE stack[Len(stack)].old
  IN  /\ stack # <<>> => ~flag
      /\ found = (enabled \/ (disabled /\ inits > 0))

\* From its start to its end a traced operation stays the one in progress and
\* the last one read by the model: nothing that the libraries do inside it, or
\* inside an MPI call, is taken for an operation or ends one.
OperationHeld ==
  \A i \in DOMAIN stack :
    stack[i].sym # NoTrace => started /\ previous_sym = stack[i].sym

\* Between its own operations the application is never refused a prediction:
\* every wrapper ends what it starts, on failure too.
NextAnswers == started /\ stack = <<>> => bracket

\* What is allowed was opened through a traced call and is still open, or was
\* closed where no wrapper could forget it (tracing was off, or the descriptor
\* is of no regular file).
AllowedKnown ==
  stack = <<>> =>
    \A p \in Api : \A h \in allowed[p] \ {NoHandle} :
      h \in leaked[p] \/ (h \in DOMAIN os[p] /\ os[p][h].traced)

\* omniscio.h:82 asks for omniscio_init "after MPI_Init", whose wrapper has
\* called it already: while tracing is enabled the log of operations is open.
OperationsLogged == enabled => operations = "open"

==============================================================================
