---------------------------- MODULE SharedParser ----------------------------
(***************************************************************************)
(* How threads share the parser of ast::parse (ast/Parse.cc).  The tables  *)
(* and the actions of the grammar are any function of the parser's state:  *)
(* its stack and lookahead, the global location, and the logger that axlog *)
(* points to, which the lexer and axerror report to.                       *)
(***************************************************************************)
CONSTANTS
    Threads, NoThread,
    None,          \* no parse is under way
    Calls,         \* what parse is called with: a code and the settings of a logger
    Origin,        \* the location before the first character
    NewLog(_),     \* the logger of a call
    Open(_, _),    \* the parser on the code of a call, at a location
    Move(_),       \* one step of axparse, from <<parser, location, logger>> to the next
    Ended(_),      \* whether axparse has returned, of a parser
    Threw(_),      \* whether the handler has thrown, of a logger
    Came(_, _)     \* what a call comes to, of the parser and the logger at its end

VARIABLES lock,    \* the holder of sInitMutex
          axlog,   \* whose logger the parser reports to
          axlloc,  \* the global location
          parse,   \* the rest of the parser's state
          call,    \* the call it is for
          inside,  \* the threads between the two ends of ast::parse
          logs,    \* thread -> its logger
          parsed   \* the calls that have ended, with what they came to

vars == <<lock, axlog, axlloc, parse, call, inside, logs, parsed>>

state == <<parse, axlloc, logs[axlog]>>
Halted(s) == Ended(s[1]) \/ Threw(s[3])

Init ==
    /\ lock = NoThread /\ axlog = NoThread
    /\ axlloc = Origin
    /\ parse = None /\ call = None
    /\ inside = {}
    /\ logs = [t \in Threads |-> logs[t]]
    /\ parsed = {}

\* A thread may do what it likes with its logger while it does not parse.
OnlyLog(t) == logs' = [k \in Threads |-> IF k = t THEN logs'[t] ELSE logs[k]]

\* The mutex is taken and the globals are set, whatever the last parse left there.
Enter(t) ==
    /\ lock = NoThread
    /\ lock' = t
    /\ axlog' = t
    /\ inside' = inside \cup {t}
    /\ call' \in Calls
    /\ axlloc' = Origin
    /\ parse' = Open(call', axlloc')
    /\ logs' = [logs EXCEPT ![t] = NewLog(call')]
    /\ UNCHANGED parsed

Advance(t) ==
    /\ t \in inside /\ ~ Halted(state)
    /\ \E s \in {Move(state)} :
        /\ parse' = s[1]
        /\ axlloc' = s[2]
        /\ logs' = [logs EXCEPT ![axlog] = s[3]]
    /\ UNCHANGED <<lock, axlog, call, inside, parsed>>

\* Both ways out release the mutex and leave the location where it is.
Leave(t) ==
    /\ t \in inside
    /\ parsed' = parsed \cup {<<call, Came(parse, logs[t])>>}
    /\ lock' = NoThread
    /\ parse' = None /\ call' = None
    /\ inside' = inside \ {t}
    /\ UNCHANGED axlloc

\* axlog is reset, and the logger is given the tree.
Return(t) ==
    /\ Leave(t)
    /\ Ended(parse) /\ ~ Threw(logs[axlog])
    /\ axlog' = NoThread
    /\ OnlyLog(t)

\* The exception of a handler leaves axlog where it points.
Throw(t) ==
    /\ Leave(t)
    /\ Threw(logs[axlog])
    /\ UNCHANGED <<axlog, logs>>

\* The thread compiles, or begins another call.
Outside(t) ==
    /\ t \notin inside
    /\ OnlyLog(t)
    /\ UNCHANGED <<lock, axlog, axlloc, parse, call, inside, parsed>>

Next == \E t \in Threads : Enter(t) \/ Advance(t) \/ Return(t) \/ Throw(t) \/ Outside(t)

Spec == Init /\ [][Next]_vars

-----------------------------------------------------------------------------
(* Properties.                                                             *)

\* The mutex is held exactly while its holder is in ast::parse, alone: it is released
\* when a handler throws.  Errors are then reported to the holder.
MutexHeld ==
    /\ inside = IF lock = NoThread THEN {} ELSE {lock}
    /\ lock # NoThread => axlog = lock

\* What a call comes to is a function of its code and its settings, whatever other
\* threads parse, and whatever earlier parses left in the globals.
ParsesAsAlone == \A p, q \in parsed : p[1] = q[1] => p[2] = q[2]

\* No step of the parser writes to the logger of a thread that does not parse.
LogsAreApart ==
    [][parse' # parse => \A t \in Threads \ (inside \cup inside') : logs'[t] = logs[t]]_vars
=============================================================================
