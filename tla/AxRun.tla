------------------------------- MODULE AxRun --------------------------------
(***************************************************************************)
(* Threads that call into AX: ax.cc (initialize, uninitialize, run),       *)
(* ast/Parse.cc, Compiler::compile for points and for volumes, and the     *)
(* executable on one point or voxel.  The generated parser is not          *)
(* reentrant: its lexer, its lookahead and axlog are globals, and a mutex  *)
(* is held around a parse.                                                 *)
(* Each thread makes the calls of a script, one after the other:           *)
(*   "initialize", "uninitialize"                                          *)
(*   "parse"    ast::parse with the error handler that throws              *)
(*   "compile"  ast::parse, compile and execute with a logger of the       *)
(*              caller, who stops at a null tree and a null executable     *)
(*   "run"      ax::run of one grid or of a list                           *)
(*   "reprint"  ast::parse of the last tree of the thread, printed         *)
(***************************************************************************)
EXTENDS Parser, Printer, Machine, Compiler, Semantics, FiniteSets

CONSTANTS
  Threads,
  NoThread,
  Scripts,    \* the set of [Threads -> Seq(call)]: a call has an op, and a code, whether
              \* that is valid for it (as it is called), the error limit, warningsAsErrors, the sets of implementations and of
              \* inputs to choose from, custom data [<<name, type>> -> value], and
              \* the kinds of its grids, a sequence of "points" and "volume"
  Inputs      \* input -> [attribute token -> value]

VARIABLES
  sIsInitialized, sShutdown,  \* ax.cc
  lock,                       \* the holder of the mutex of Parse.cc
  axlog,                      \* whose logger the parser writes to
  axlloc,                     \* where the last parse left the location
  parse,                      \* the parse under way
  parsed,                     \* what each parse came to, of every call so far
  todo, stage, logger, ast, original,                         \* by thread
  exe, grid, input, machine, result

shared == <<sIsInitialized, sShutdown>>
parser == <<lock, axlog, axlloc, parse, parsed>>
kernel == <<exe, grid, input, machine, result>>
vars == <<shared, parser, todo, stage, logger, ast, original, kernel>>

Idle == [status |-> "idle"]
NoExe == [ok |-> FALSE, undefined |-> FALSE]
NoMachine == [done |-> FALSE]

Current(t) == Head(todo[t])
Begins(t, ops) == stage[t] = "idle" /\ todo[t] # <<>> /\ Current(t).op \in ops
In(t, s, ops) == stage[t] = s /\ Current(t).op \in ops

Step(t, s) == stage' = [stage EXCEPT ![t] = s]

Init ==
  /\ sIsInitialized = FALSE /\ sShutdown = FALSE
  /\ lock = NoThread /\ axlog = NoThread /\ axlloc = <<1, 1>>
  /\ parse = Idle /\ parsed = {}
  /\ todo \in Scripts
  /\ stage = [t \in Threads |-> "idle"]
  /\ logger = [t \in Threads |-> NewLogger(0, FALSE, FALSE)]
  /\ ast = [t \in Threads |-> Null] /\ original = [t \in Threads |-> Null]
  /\ exe = [t \in Threads |-> NoExe] /\ grid = [t \in Threads |-> 0]
  /\ input = [t \in Threads |-> ""]
  /\ machine = [t \in Threads |-> NoMachine] /\ result = [t \in Threads |-> <<>>]

-----------------------------------------------------------------------------
(* ax.cc.  The mutex of these two is held for the whole of the call.       *)

Initialize(t) ==
  /\ Begins(t, {"initialize"})
  /\ IF sIsInitialized THEN Step(t, "done") /\ UNCHANGED sIsInitialized
     ELSE IF sShutdown THEN Step(t, "threw") /\ UNCHANGED sIsInitialized
     ELSE Step(t, "done") /\ sIsInitialized' = TRUE
  /\ UNCHANGED <<sShutdown, parser, todo, logger, ast, original, kernel>>

Uninitialize(t) ==
  /\ Begins(t, {"uninitialize"})
  /\ Step(t, "done")
  /\ sIsInitialized' = FALSE
  /\ sShutdown' = (sShutdown \/ sIsInitialized)
  /\ UNCHANGED <<parser, todo, logger, ast, original, kernel>>

-----------------------------------------------------------------------------
(* ast::parse.                                                             *)

Parses == {"parse", "compile", "run", "reprint"}

Kinds(t) == ToSet(Current(t).grids)
OnPoints(t) == Head(Current(t).grids) = "points"

\* Nothing is done for no grids, and for both kinds an exception is thrown.
RefuseGrids(t) ==
  /\ Begins(t, {"run"})
  /\ Cardinality(Kinds(t)) # 1
  /\ Step(t, IF Kinds(t) = {} THEN "done" ELSE "threw")
  /\ UNCHANGED <<shared, parser, todo, logger, ast, original, kernel>>

\* ax::run takes the default logger; the parse without a logger makes one that throws.
LoggerOf(call) ==
  IF call.op \in {"run", "reprint"} THEN NewLogger(0, FALSE, FALSE)
  ELSE NewLogger(call.limit, call.wae, call.op = "parse")

Code(t) == IF Current(t).op = "reprint" THEN Reprint(ast[t]) ELSE Current(t).code

\* Fault: the location goes on from where the last parse left it.
OpenParseThere(code) == NewParse(code, axlloc)

\* The location is reset, and the code becomes the buffer of the lexer.
OpenParse(code) == NewParse(code, <<1, 1>>)

\* Fault: axlog is set only if no parse has left it set.
AxlogKept(t) == IF axlog = NoThread THEN t ELSE axlog

\* axlog is set to the logger of the call.
AxlogFor(t) == t

LockParser(t) ==
  /\ Begins(t, Parses)
  /\ Current(t).op = "run" => Cardinality(Kinds(t)) = 1
  /\ lock = NoThread
  /\ lock' = t
  /\ axlog' = AxlogFor(t)
  /\ logger' = [logger EXCEPT ![t] = LoggerOf(Current(t))]
  /\ parse' = OpenParse(Code(t))
  /\ original' = [original EXCEPT ![t] = ast[t]]
  /\ ast' = [ast EXCEPT ![t] = Null]
  /\ Step(t, "parsing")
  /\ UNCHANGED <<shared, axlloc, parsed, todo, kernel>>

\* One step of axparse, and what it tells the logger.
Advance(t, p, log) ==
  /\ stage[t] = "parsing" /\ ~logger[axlog].thrown
  /\ parse' = p
  /\ logger' = [logger EXCEPT ![axlog] = log]
  /\ UNCHANGED <<shared, lock, axlog, axlloc, parsed, todo, stage, ast, original, kernel>>

Parsing(t) == stage[t] = "parsing" /\ ~logger[t].thrown

ReadToken(t) ==
  Parsing(t) /\ NeedsToken(parse) /\ Advance(t, ReadLexeme(parse), LogLexeme(parse, logger[axlog]))

ShiftToken(t) ==
  Parsing(t) /\ CanShift(parse) /\ Advance(t, Shift(parse), logger[axlog])

ReduceRule(t) ==
  /\ Parsing(t) /\ CanReduce(parse)
  /\ \E red \in {Reduction(parse, DefaultRule(parse))} :
       Advance(t, Reduce(parse, red), LogReduction(parse, red, logger[axlog]))

SyntaxError(t) ==
  Parsing(t) /\ IsError(parse)
    /\ Advance(t, Fail(parse, logger[axlog]), LogError(logger[axlog]))

\* What a parse came to, without the addresses: the locations are those of the nodes
\* in post-order.
Outcome(p, l) ==
  LET nodes == PostOrder(p.tree)
  IN  [status |-> p.status, tree |-> Shape(p.tree), errors |-> l.errors,
       warnings |-> l.warnings,
       locations |-> [i \in DOMAIN nodes |-> LocationOf(l, nodes[i])]]

\* A parse that the handler threw out of has no tree.
Thrown(p) == [p EXCEPT !.status = "thrown", !.tree = Null]

Settings(l) == <<l.maxErrors, l.wae, l.throws>>
Asked(p, l) == <<p.code, Settings(l)>>
Recorded(p, l) == parsed \cup {<<Asked(p, l), Outcome(p, l)>>}

\* axparse returns: the buffer is deleted and the logger is given the tree.
EndParse(t) ==
  /\ Parsing(t) /\ parse.status \in {"accepted", "aborted"}
  /\ ast' = [ast EXCEPT ![t] = parse.tree]
  /\ logger' = [logger EXCEPT ![t].tree = parse.tree]
  /\ parsed' = Recorded(parse, logger[t])
  /\ axlloc' = parse.lloc /\ parse' = Idle
  /\ axlog' = NoThread
  /\ lock' = NoThread
  /\ Step(t, "parsed")
  /\ UNCHANGED <<shared, todo, original, kernel>>

\* Fault: the lock is not released on the way out.
RaiseLocked(t) ==
  /\ stage[t] = "parsing" /\ logger[t].thrown
  /\ parsed' = Recorded(Thrown(parse), logger[t])
  /\ axlloc' = parse.lloc /\ parse' = Idle
  /\ Step(t, "threw")
  /\ UNCHANGED <<shared, lock, axlog, todo, logger, ast, original, kernel>>

\* The handler has thrown, from the lexer or from axerror.  The lock is released on
\* the way out; the buffer and the nodes are not freed, and axlog is left as it is.
Raise(t) ==
  /\ stage[t] = "parsing" /\ logger[t].thrown
  /\ parsed' = Recorded(Thrown(parse), logger[t])
  /\ axlloc' = parse.lloc /\ parse' = Idle
  /\ lock' = NoThread
  /\ Step(t, "threw")
  /\ UNCHANGED <<shared, axlog, todo, logger, ast, original, kernel>>

-----------------------------------------------------------------------------
(* compile<PointExecutable> and compile<VolumeExecutable>.                 *)

\* The tree that is compiled.
Compiled(t) == IF OnPoints(t) THEN PointTree(ast[t]) ELSE ast[t]

Generate(t, log, preferred) ==
  IF OnPoints(t) THEN GeneratePoint(Compiled(t), log, preferred)
  ELSE GenerateVolume(Compiled(t), log, preferred)

Executable(t, g) ==
  IF ~g.ok THEN [ok |-> FALSE, undefined |-> g.undefined]
  ELSE [ok |-> TRUE, undefined |-> FALSE, blocks |-> g.blocks, registry |-> g.registry,
        externals |-> Externals(ast[t], Current(t).data)]

\* A null registry ends the compilation; what comes after throws.
Compile(t) ==
  /\ In(t, "parsed", {"compile", "run"})
  /\ ~IsNull(ast[t])
  /\ OnPoints(t) => ~Endless(ast[t])
  /\ \E preferred \in Current(t).implementations :
       \E g \in {Generate(t, VerifyTypedAccesses(Compiled(t), logger[t]), preferred)} :
         /\ logger' = [logger EXCEPT ![t] = g.log]
         /\ IF g.ok /\ (DataMismatch(ast[t], Current(t).data) \/ ~sIsInitialized)
            THEN Step(t, "threw") /\ UNCHANGED exe
            ELSE Step(t, "compiled") /\ exe' = [exe EXCEPT ![t] = Executable(t, g)]
  /\ UNCHANGED <<shared, parser, todo, ast, original, grid, input, machine, result>>

\* A null tree or a null executable is dereferenced by ax::run.
Crash(t) ==
  /\ \/ In(t, "parsed", {"run"}) /\ IsNull(ast[t])
     \/ In(t, "compiled", {"run"}) /\ ~exe[t].ok
  /\ Step(t, "crashed")
  /\ UNCHANGED <<shared, parser, todo, logger, ast, original, kernel>>

\* The iteration of a loop of the copy is its own parent: a walk never ends.
Hang(t) ==
  /\ In(t, "parsed", {"compile", "run"})
  /\ OnPoints(t) /\ ~IsNull(ast[t]) /\ Endless(ast[t])
  /\ Step(t, "hung")
  /\ UNCHANGED <<shared, parser, todo, logger, ast, original, kernel>>

-----------------------------------------------------------------------------
(* The kernel on one voxel, once for each attribute it writes, or once on  *)
(* one point.  The volumes of a list are the attributes of one execution;  *)
(* grids of points are executed one after the other.                       *)

Values(t) == [a \in DOMAIN exe[t].registry |-> Inputs[input[t]][a]]

KernelFor(t, token) ==
  NewMachine(exe[t].blocks, token, Values(t),
             [n \in {ExternalName(e[1], e[2]) : e \in DOMAIN exe[t].externals} |->
                exe[t].externals[<<n[2], n[3]>>]])

Written(t) == {a \in DOMAIN exe[t].registry : exe[t].registry[a].write}

GridsLeft(t) == OnPoints(t) /\ grid[t] < Len(Current(t).grids)

\* The grids keep what they hold until their own run stores it.
BeginExecute(t) ==
  /\ \/ stage[t] = "compiled" /\ exe[t].ok
     \/ stage[t] = "executed" /\ GridsLeft(t)
  /\ grid' = [grid EXCEPT ![t] = @ + 1]
  /\ \E i \in Current(t).inputs :
       /\ input' = [input EXCEPT ![t] = i]
       /\ result' = [result EXCEPT ![t] = <<>>]
  /\ Step(t, "executing")
  /\ UNCHANGED <<shared, parser, todo, logger, ast, original, exe, machine>>

StartKernel(t) ==
  /\ stage[t] = "executing" /\ ~OnPoints(t) /\ machine[t] = NoMachine
  /\ Written(t) # DOMAIN result[t]
  /\ LET token == CHOOSE a \in Written(t) : a \notin DOMAIN result[t]
     IN  machine' = [machine EXCEPT ![t] = KernelFor(t, token)]
  /\ UNCHANGED <<shared, parser, todo, stage, logger, ast, original, exe, grid, input, result>>

RunKernel(t) ==
  /\ stage[t] = "executing" /\ machine[t] # NoMachine /\ ~machine[t].done
  /\ machine' = [machine EXCEPT ![t] = RunBlock(@)]
  /\ UNCHANGED <<shared, parser, todo, stage, logger, ast, original, exe, grid, input, result>>

EndKernel(t) ==
  /\ stage[t] = "executing" /\ ~OnPoints(t) /\ machine[t].done
  /\ LET token == machine[t].token
     IN  result' = [result EXCEPT ![t] = (token :>
           IF token \in DOMAIN machine[t].out THEN machine[t].out[token]
           ELSE Values(t)[token]) @@ @]
  /\ machine' = [machine EXCEPT ![t] = NoMachine]
  /\ UNCHANGED <<shared, parser, todo, stage, logger, ast, original, exe, grid, input>>

EndExecute(t) ==
  /\ stage[t] = "executing" /\ ~OnPoints(t) /\ machine[t] = NoMachine
  /\ Written(t) = DOMAIN result[t]
  /\ Step(t, "executed")
  /\ UNCHANGED <<shared, parser, todo, logger, ast, original, kernel>>

StartPoint(t) ==
  /\ stage[t] = "executing" /\ OnPoints(t) /\ machine[t] = NoMachine
  /\ machine' = [machine EXCEPT ![t] = KernelFor(t, <<>>)]
  /\ UNCHANGED <<shared, parser, todo, stage, logger, ast, original, exe, grid, input, result>>

EndPoint(t) ==
  /\ stage[t] = "executing" /\ OnPoints(t) /\ machine[t].done
  /\ result' = [result EXCEPT ![t] = [a \in Written(t) |->
       IF a \in DOMAIN machine[t].out THEN machine[t].out[a] ELSE Values(t)[a]]]
  /\ machine' = [machine EXCEPT ![t] = NoMachine]
  /\ Step(t, "executed")
  /\ UNCHANGED <<shared, parser, todo, logger, ast, original, exe, grid, input>>

\* The call returns or throws, and the thread makes its next one.
Return(t) ==
  /\ \/ stage[t] \in {"done", "threw"}
     \/ stage[t] = "executed" /\ ~GridsLeft(t)
     \/ In(t, "parsed", {"parse", "reprint"})
     \/ In(t, "parsed", {"compile"}) /\ IsNull(ast[t])
     \/ In(t, "compiled", {"compile"}) /\ ~exe[t].ok
  /\ todo' = [todo EXCEPT ![t] = Tail(@)]
  /\ Step(t, "idle")
  /\ logger' = [logger EXCEPT ![t] = NewLogger(0, FALSE, FALSE)]
  /\ exe' = [exe EXCEPT ![t] = NoExe]
  /\ grid' = [grid EXCEPT ![t] = 0]
  /\ input' = [input EXCEPT ![t] = ""]
  /\ result' = [result EXCEPT ![t] = <<>>]
  /\ UNCHANGED <<shared, parser, ast, original, machine>>

Do(t) ==
  \/ Initialize(t) \/ Uninitialize(t)
  \/ RefuseGrids(t) \/ LockParser(t) \/ ReadToken(t) \/ ShiftToken(t) \/ ReduceRule(t) \/ SyntaxError(t)
  \/ EndParse(t) \/ Raise(t)
  \/ Compile(t) \/ Crash(t) \/ Hang(t)
  \/ BeginExecute(t) \/ StartKernel(t) \/ RunKernel(t) \/ EndKernel(t) \/ EndExecute(t)
  \/ StartPoint(t) \/ EndPoint(t)
  \/ Return(t)

\* Every script has been gone through.  Anything else that stops is a deadlock.
Finished ==
  /\ \A t \in Threads : todo[t] = <<>> \/ stage[t] \in {"crashed", "hung"}
  /\ UNCHANGED vars

Next == (\E t \in Threads : Do(t)) \/ Finished

Spec == Init /\ [][Next]_vars

-----------------------------------------------------------------------------
(* Properties.                                                             *)

\* Every variable has its type, and the mutex of the parser is held exactly while its
\* holder is parsing: it is released when an error handler throws.
TypeOK ==
  /\ sIsInitialized \in BOOLEAN /\ sShutdown \in BOOLEAN
  /\ lock \in Threads \cup {NoThread} /\ axlog \in Threads \cup {NoThread}
  /\ stage \in [Threads -> {"idle", "parsing", "parsed", "compiled", "executing",
                            "executed", "done", "threw", "crashed", "hung"}]
  /\ parse.status \in {"idle", "parsing", "accepted", "aborted", "thrown"}
  /\ (parse.status = "idle") = (lock = NoThread)
  /\ \A t \in Threads : (lock = t) = (stage[t] = "parsing")
  /\ \A t \in Threads : \A a \in DOMAIN result[t] : a \in Written(t)

\* What a parse comes to, its errors and the locations of its nodes included, is a
\* function of the code: it does not depend on what another thread parses at the same
\* time, nor on what earlier parses left in the lexer, those that failed or that an
\* error handler threw out of included (the statics reset by ast::parse).
ParsesAsAlone == \A p, q \in parsed : p[1] = q[1] => p[2] = q[2]

\* When axparse returns, every node that was made is in the tree or was deleted, and
\* none was deleted twice: the semantic actions and the destructors of the grammar
\* agree on who owns a node.
NodesOwned ==
  parse.status \in {"accepted", "aborted"} =>
    parse.live = Ids(parse.tree) /\ ~parse.twice

\* Every node of a tree has a place in the code for an error to name; the block made
\* for an empty program has none.
NodesLocated ==
  parse.status = "accepted" =>
    \A n \in ToSet(PostOrder(parse.tree)) :
      n.id \in DOMAIN logger[lock].locations \/ (n.kind = "Block" /\ n.kids = <<>>)

\* An error that compile reports of a node names the place of its code: a node of the
\* tree that was compiled, which for points is a copy with other attributes, is found in
\* the tree of the logger at the node it was copied from.
CopyLocated ==
  \A t \in Threads : stage[t] = "compiled" =>
    LET nodes == PostOrder(Compiled(t))
        sources == PostOrder(ast[t])
    IN  /\ Len(nodes) = Len(sources)
        /\ \A i \in DOMAIN nodes :
             NodeToCodeLocation(logger[t], Compiled(t), nodes[i]) = LocationOf(logger[t], sources[i])

\* Code that is valid compiles and other code does not; a null tree or a null executable
\* comes with an error in the logger, an executable with none, and the parse whose
\* handler throws never returns a null tree: what the assertion in compile and the
\* callers that only look at the logger rely on.
FailureIsReported ==
  \A t \in Threads :
    /\ stage[t] = "parsed" /\ IsNull(ast[t]) =>
         logger[t].errors > 0 /\ Current(t).op # "parse" /\ ~Current(t).valid
    /\ stage[t] = "compiled" /\ ~exe[t].undefined =>
         exe[t].ok = Current(t).valid /\ exe[t].ok = (logger[t].errors = 0)

\* No visit of the generator takes a value from an empty stack.
StackHolds == \A t \in Threads : ~exe[t].undefined

\* No null tree and no null executable is dereferenced: ax.cc says of both calls in
\* ax::run that they throw on invalid code.
NullIsNotUsed == \A t \in Threads : stage[t] # "crashed"

WellFormedBlocks(blocks) ==
  LET Leaves(b) == Last(blocks[b])
      Jumps(b) == {Leaves(b).to[i] : i \in DOMAIN Leaves(b).to}
      From(b) == {c \in DOMAIN blocks : Leaves(c).op \in {"BR", "CONDBR"} /\ b \in Jumps(c)}
  IN  /\ \A b \in DOMAIN blocks :
           /\ blocks[b] # <<>> /\ Leaves(b).op \in Terminators
           /\ \A i \in 1..(Len(blocks[b]) - 1) : blocks[b][i].op \notin Terminators
      /\ \A b \in DOMAIN blocks : \A i \in DOMAIN blocks[b] :
           blocks[b][i].op \in {"PHI", "PHIPTR"} =>
             ToSet(blocks[b][i].to) = From(b) /\ IsInjective(blocks[b][i].to)

\* What the verifier of llvm asks of a kernel: each block ends with its only branch or
\* return, whatever break, continue and return do in the middle of it, and a phi has
\* a value for each block control comes from, and no other.
WellFormed == \A t \in Threads : exe[t].ok => WellFormedBlocks(exe[t].blocks)

MeantBy(root, data, attributes) ==
  Meant(root, attributes, Externals(root, data)).attributes

\* The value stored for an attribute is the one the program gives it, for each
\* implementation of a function that may be chosen, and an attribute that is not stored
\* is not changed by the program: the scanners find every write, and the generated
\* branches, scopes, conversions and functions mean what the tree says.
RunsAsWritten ==
  \A t \in Threads : stage[t] = "executed" =>
    result[t] @@ Values(t) = MeantBy(Compiled(t), Current(t).data, Values(t))

\* An attribute that is not among the dependencies of another does not change what
\* is stored in it: what VolumeExecutable relies on when it runs the kernel for one
\* grid after the other, over grids that have been stored already.
DependenciesComplete ==
  \A t \in Threads : stage[t] = "compiled" /\ exe[t].ok =>
    \A i \in Current(t).inputs :
      LET registry == exe[t].registry
          values == [a \in DOMAIN registry |-> Inputs[i][a]]
          before == MeantBy(Compiled(t), Current(t).data, values)
      IN  \A j \in Current(t).inputs \ {i}, b \in DOMAIN registry :
            LET after == MeantBy(Compiled(t), Current(t).data, [values EXCEPT ![b] = Inputs[j][b]])
            IN  \A a \in Written(t) \ {b} :
                  b \notin registry[a].dependencies => before[a] = after[a]

\* A tree printed as code and parsed again is the tree, in a block of its own.
PlainShape(n) ==
  MapNodes(LAMBDA m : [m EXCEPT !.id = 0,
             !.data = IF m.kind = "Attribute" THEN <<@[1], @[2]>> ELSE @], n)

ReprintsSame ==
  \A t \in Threads : In(t, "parsed", {"reprint"}) =>
    /\ ~IsNull(ast[t])
    /\ Len(ast[t].kids[1].kids) = 1
    /\ PlainShape(ast[t].kids[1].kids[1]) = PlainShape(original[t].kids[1])

-----------------------------------------------------------------------------
(* The threads share the parser as SharedParser says.                      *)

OpenCall(c, loc) == NewParse(c[1], loc)
LoggerFor(c) == NewLogger(c[2][1], c[2][2], c[2][3])

\* What ReadToken, ShiftToken, ReduceRule and SyntaxError do, whichever can be taken.
Moved(s) ==
  LET p == s[1]
      l == s[3]
      Now(q, log) == <<q, q.lloc, log>>
  IN  IF NeedsToken(p) THEN Now(ReadLexeme(p), LogLexeme(p, l))
      ELSE IF CanShift(p) THEN Now(Shift(p), l)
      ELSE IF CanReduce(p)
      THEN LET red == Reduction(p, DefaultRule(p))
           IN  Now(Reduce(p, red), LogReduction(p, red, l))
      ELSE Now(Fail(p, l), LogError(l))

Shared == INSTANCE SharedParser WITH
  None <- Idle, Calls <- Seq(STRING) \X (Nat \X BOOLEAN \X BOOLEAN), Origin <- <<1, 1>>,
  NewLog <- LoggerFor, Open <- OpenCall, Move <- Moved,
  Ended <- LAMBDA p : p.status \in {"accepted", "aborted"},
  Threw <- LAMBDA l : l.thrown,
  Came <- LAMBDA p, l : Outcome(IF l.thrown THEN Thrown(p) ELSE p, l),
  axlloc <- IF lock = NoThread THEN axlloc ELSE parse.lloc,
  call   <- IF lock = NoThread THEN Idle ELSE Asked(parse, logger[lock]),
  inside <- {t \in Threads : stage[t] = "parsing"},
  logs   <- logger

\* Each thread takes the mutex, resets the globals and points axlog to its own logger
\* before it parses, and gives the mutex up whichever way it leaves: the globals are
\* not touched otherwise, and a logger only by its own thread.
ImplementsSharedParser == Shared!Spec

-----------------------------------------------------------------------------
(* Each parse owns its nodes as ParserOwnership says.                      *)

Owners == INSTANCE ParserOwnership WITH
  status <- parse.status,
  stack  <- IF parse = Idle THEN <<>>
            ELSE [i \in DOMAIN parse.stack |-> Destroyed(parse.stack[i])],
  tree   <- IF parse = Idle THEN {} ELSE Ids(parse.tree),
  made   <- IF parse = Idle THEN {} ELSE 1..(parse.next - 1),
  live   <- IF parse = Idle THEN {} ELSE parse.live,
  twice  <- parse # Idle /\ parse.twice

\* Every semantic action hands on each node it is given, and each it makes, to the one
\* value it returns, and every destructor deletes just what its symbol owns: a node has
\* one owner at every step of every parse.
ImplementsParserOwnership == Owners!Spec
=============================================================================
