# Verification of OpenVDB AX

OpenVDB AX compiles snippets of the AX language with LLVM and runs them over the
points or the voxels of OpenVDB grids. This directory holds TLA+ models of the
parts of the code that keep state across steps, the TLC runs that check them on
small instances, and TLAPS proofs of what matters most for every instance.

    tlc -workers 2 -config LeafKernel.cfg LeafKernel
    tlc -workers 2 -config PointExecution.cfg MCPointExecution
    tlc -workers 2 -config AxRun.cfg MCAxRun
    tlapm PointKernels_proofs.tla

`PROJECT.json` lists the components, runs, mutants, theorems and hazards, and
maps every definition to the lines of code it stands for.

## Inventory

| Part | State | Operations | What is hard | What makes it correct |
|---|---|---|---|---|
| Point leaf local data (`codegen/PointLeafLocalData.h`) | new group arrays, next bit, handles by name, pending strings | getOrInsert, compact, set/removeNewStringData, insertNewStrings | several groups share an array; uniform flags; arrays that fill up | groups are independent, pending strings are exactly the new ones |
| Point execution (`compiler/PointExecutable.cc`, `codegen/PointComputeGenerator.cc`) | settings; the grid's descriptor, groups, metadata, points; the leaf data of one execution | setters, execute and its passes, the generated loop | leaves in parallel, passes that read what earlier passes left, exceptions half way | every selected point runs once, its edits stay, nothing else changes, a failure changes no point |
| Point functions (`codegen/PointFunctions.cc`) | none of their own: the grid's and the leaf's | ingroup, addtogroup, removefromgroup, deletepoint, set/getattribute | two places a group or a string may be | a read returns the last write |
| Volume execution (`compiler/VolumeExecutable.cc`, `codegen/VolumeComputeGenerator.cc`) | settings, the caller's list of grids, read and written grids | setters, execute on a list and on one grid, registerVolumes, the kernel | grids that depend on each other, read while written; grids missing, created or of another type | every value is computed from the grids as they were |
| Houdini node (`openvdb_ax_houdini/SOP_OpenVDB_AX.cc`) | hash, cached parameters, expression sets, custom data, executables, registry | cook | every step may fail and the next cook starts from what is left | an execution runs the current kernel on current values |
| Custom data, compiler (`compiler/CustomData.h`, `Compiler.cc`) | values by name, whose addresses are compiled into executables | insertData, reset, compile | lifetime of addresses | an executable is bound to entries that exist |
| Parser and lexer (`grammar/`, `ast/Parse.cc`) | globals: the logger, the location, the buffer and state of the lexer; the parser's stack of symbols, nodes and locations | ast::parse, yylex, yyparse, its semantic actions, recovery and destructors | not reentrant, one mutex; handlers that throw through generated C code; raw pointers on the stack | a parse is a function of its code, and frees what it does not return |
| AST (`ast/AST.h`, `Visitor.h`), printer (`PrintTree.cc`) | the tree | traversals, reprint | order of children, operators without stored parentheses | a reprinted tree parses to itself |
| Scanners, attribute registry (`ast/Scanners.cc`, `compiler/AttributeRegistry.h`) | accesses and their dependencies | catalogueVariables, variableDependencies, create | control flow and loops | no write and no real dependency is missed |
| Compute generator, symbol table (`codegen/ComputeGenerator.cc`, `SymbolTable.h`) | value stack, scopes, break/continue targets, blocks | one visitor per node | every path, failed ones included, must leave the stack balanced and each block closed once | what is popped is what the child pushed; the kernel means the program |
| Functions (`codegen/FunctionRegistry.cc`, `FunctionTypes.cc`, `StandardFunctions.cc`, `Utils.h`) | functions by name, overloads, those created | getOrInsert, match, one body or two per function | order of overloads, conversions, two implementations of one function | the first best match is taken, both implementations agree |
| Logger (`compiler/Logger.cc`) | counts, limit, locations of nodes | error, warning | a limit that ends a walk half way; nodes of a copied tree | a failure has an error, a success none; an error names its place |
| Compiler, `ax.cc` (`compiler/Compiler.cc`) | two flags of the initialisation; the copy of the tree points are compiled from | initialize, uninitialize, compile, run | failure at each stage, another thread that shuts down | nothing null is used |
| Noise, IR utilities for points, command line, Python | text, IR | | arithmetic, I/O | not modelled, see the end |

The parts interact by calls: the Houdini node (or `ax::run`, or a caller) parses
and compiles a snippet into an executable that holds an attribute registry,
custom data and the addresses of kernels; `execute` runs the kernel over a grid;
the kernel calls back the point or volume functions, which edit the grid or the
leaf data. Parallel tasks share the grid and own one leaf each.

## Modules

| Module | Models |
|---|---|
| `PointLeafLocalData` | the methods of the class as operators on a record value; what makes such a value sound |
| `LeafKernel` | one leaf while a kernel edits groups and strings |
| `LeafEdits` | abstract: groups are independent sets, a string read is the last write |
| `PointLeafLocalData_proofs`, `LeafKernel_proofs` | that each method keeps the data sound; the theorems about `LeafKernel`, that it implements `LeafEdits` included |
| `PointExecution` | `PointExecutable::execute` over a grid, pass by pass and leaf by leaf |
| `PointKernels` | abstract: a kernel runs once over each selected point |
| `PointExecution_proofs`, `PointKernels_proofs` | the theorems about `PointExecution`; that it implements `PointKernels` |
| `VolumeExecution` | `VolumeExecutable::execute`, access by access and voxel by voxel, or tile by tile |
| `VolumeKernels` | abstract: all values are computed from the grids as they were |
| `VolumeExecution_proofs` | the theorems about `VolumeExecution`, that it implements `VolumeKernels` included |
| `HoudiniCook` | the cook of the Houdini node and what it caches |
| `FreshCook` | abstract: a node that remembers nothing from one cook to the next |
| `HoudiniCook_proofs` | the theorems about `HoudiniCook`, that it implements `FreshCook` included |
| `Syntax` | the nodes of the AST and their traversals |
| `Lexer`, `Grammar`, `Parser` | tokens; rules, precedence and automaton; the steps of the generated parser |
| `SharedParser` | abstract: how threads share the globals of the parser, for any grammar |
| `SharedParser_proofs` | the theorems about `SharedParser` |
| `ParserOwnership` | abstract: who owns the nodes of a parse, for any grammar |
| `ParserOwnership_proofs` | the theorems about `ParserOwnership` |
| `Logger` | errors, warnings, limit, locations and the search for them by position |
| `Scanners` | accesses and dependencies, and the registry made of them |
| `Values`, `FunctionTypes`, `StandardFunctions` | types and arithmetic; signatures and their selection; bodies |
| `Instructions`, `Expressions`, `Generator` | the builder; operators, assignments and calls; the visitors, the kernels of a voxel and of a point |
| `Compiler` | the checks of a tree, custom data, the copy of the tree that points are compiled from |
| `Machine` | the kernel, run block by block |
| `Mathematics`, `Semantics` | reference: what a program means, by evaluation of its tree |
| `Printer` | the reprint of a tree |
| `AxRun` | threads that initialise, parse, compile, execute and print |
| `MC...` | the instances TLC checks |

`PointExecution` extends `PointLeafLocalData`, the class the executable keeps per
leaf. `LeafKernel`, `PointExecution`, `VolumeExecution`, `HoudiniCook` and `AxRun` each
instantiate the abstract modules they implement, with a refinement mapping.

### LeafKernel

`data` is the `PointLeafLocalData` of a leaf, `stored` the strings in the grid's
arrays. `EditGroup` is `editgroup` as addtogroup and removefromgroup call it,
with its early return; `SetAttribStr` is `setattribstr`; `Compact` is the end of
the leaf, and may come at any time here. An array keeps for each point the set of
bits that are on, and its uniform flag.

### PointExecution

`phase` is the pass of `execute()`: *attributes* (one attribute of the registry per
step, a step that may throw), *lookup* of the execution group, *kernel*,
*append*, *copy*, and *drop* of the temporary position attribute. In *kernel* and
*copy* each leaf has its own `pc`, and with a grain size above 0 their steps
interleave freely; with grain size 0 a leaf starts when those before it are done.
A leaf is opened, then its kernel edits groups of the current point any number of
times up to a bound and returns, storing any position and string the registry
says it writes. The group handles, `ingroup`, the unsigned bound of the generated
loop and the two branches of the copy are as in the code. All ways out are
modelled: a mismatching or missing attribute, a missing group, a handle that
cannot be bound. A throw while one leaf opens ends the execution; tasks of other
leaves may have run by then. The compiler never makes an executable without a
kernel, so the lookup of its address cannot fail.

`deletepoint` is an addtogroup of the group "dead".

### VolumeExecution

One access of the registry is registered per step: matched by name and type,
created, or refused, and read from the grid or a deep copy. Then the kernel runs
at the iterated voxels of each written grid in turn, the voxels of a grid in any
order. A grid has a transform, as a map from world positions to voxels. Each voxel has
the level of the node that holds its value, 0 for a leaf and -1 for the background, and
the origin of the tile it lies in, where the tile keeps its value and state; the kernel
runs over the values of `treeExecutionLevel` and `setvoxel` keeps a tile a tile. A kernel
is the table of the values it assigns, as a function of the values it loads;
`DepsAssumption` states that the registry knows every access a value depends on.

### HoudiniCook

A cook is a sequence of steps, each of which may end it: recompile, parse,
evaluate the external expressions, compile, execute; or, when hash and parameters
match, evaluate and execute. What the session holds (channels, HScript variables)
is chosen at every evaluation. A snippet is a record of what the cache has to tell
apart.

`FreshCook` is the node without hash, expression sets, custom data, executables and flags:
`Prepare` makes from snippet, parameters and one session what `Execute` executes, or the
cook fails. The mapping gives it `Plan`, the kernel of the cached target with the values
at the addresses compiled into it, and `Stage`, in which all phases between the begin of a
cook and its execution are one. Two things are left open, since the code does not settle
them: a cook of a valid snippet may fail, as finding 3 shows, and a variable of another
type than the one accessed reads as any value of its name, as finding 4 shows.

### AxRun and the modules it is made of

`AxRun` composes the front end, the compiler, and one voxel of the volume or one point of
the point executable. Each thread makes the calls of a script: `initialize`,
`uninitialize`, `ast::parse` with the handler that throws, a caller with a logger of its
own who compiles and executes, `ax::run` of a list of grids, and a parse of the printed
tree.

    AxRun -+- Parser ---- Grammar, Lexer, Logger - Syntax
           +- Compiler -- Generator - Expressions - StandardFunctions - FunctionTypes - Instructions - Values
           |                  `------ Scanners
           +- Machine      runs the blocks of Generator
           +- Printer
           `- Semantics -- Mathematics    the reference

*Parsing* is one lexeme, shift, reduction or error per step, so two threads can meet
in the middle of a parse. Code is a sequence of lexemes, those flex cuts it into.
`Grammar` has the rules of the generated parser (`yyr1`, `yyr2`, the actions of
`yyparse`) with the precedence of the grammar's tokens, and computes from them the
automaton that bison wrote to `yypact`, `yytable` and `yydefact`, default reductions
included: a state is a set of items. A node is a record with an address, counted from 1 in
each parse, since nothing compares nodes of two parses; `live` holds
the addresses of nodes made and not deleted, so that ownership by the actions and by
`yydestruct` can be compared. A location is counted in lexemes. The error recovery of
this grammar has no `error` token, so an error ends the parse after the stack is
unwound.

`SharedParser` is what `AxRun` does with the globals of `Parse.cc`: `Enter` takes the
mutex, points `axlog` to the caller's logger and resets the location; `Advance` is any
function `Move` of parser, location and logger; `Return` resets `axlog`, and `Throw`, the way
out when a handler throws, does not. In between a thread may do what it likes with its
own logger. The parser and its actions, lexemes and errors are hidden in `Move`.

`ParserOwnership` is one parse with nothing left but who owns which node. An entry of the
stack owns what its destructor would delete; `Reduce` pops any number of entries and
pushes one that owns all they did and what the action makes, `Deliver` gives that to
`*tree`, `Abort` runs the destructors, and `Throw` is a handler that leaves the stack as it is.
In `AxRun` an entry owns `Destroyed`, the nodes `yydestruct` deletes for its symbol, so
that each action of the grammar has to hand on just those.

*Compiling* is one step: `verifyTypedAccesses`, the registry of `Scanners`, the
visitors of `Generator` and what `compile` does with the result. The generator is a
function of a record: `values` is `mValues`, `tables` the symbol tables by scope,
`loops` the break and continue targets, `blocks` the basic blocks under construction,
`ok` what the last visit returned. Every visitor keeps its early returns: `Refuse` is
a false returned, `Halted` one at the error limit, and where the code looks at the
limit only, the walk goes on with the stack as it is. A pop of the empty stack sets
`undefined`, and so does a read of its top, as the left side of an assignment is read: what
the compiled code does then is anything, and the model stops there
with no executable. The two indices of a matrix element are combined without conversion,
so they are `undefined` as well unless both are int32. The builder folds constants as LLVM's does. Arrays and strings are
moved as one value where the code copies element by element. Points are compiled from
`PointTree`, a copy in which `@P`, `@v`, `@N` and `@Cd` are vectors. Its nodes are not
those the parser located, so `NodeToCodeLocation` looks for the node at the same place in
the tree of the logger. Where the copy replaces the iteration of a loop, that node
becomes its own parent and the next walk to the root never ends: the action `Hang`.

*Executing* runs a block of the kernel per step: once for each attribute the registry
writes on the values of one voxel, or once on those of one point, where every attribute
is set at each return. A list of volumes is one execution, over the attributes of all;
grids of points follow one another with the same executable. `Values.Bits` gives integers small widths and they
wrap; floating point numbers are fixed point numbers, rounded to the nearest. Where a
function has an implementation in C and one in IR, a call chooses which of them the
registry prefers, and `StandardFunctions` has both.

`Semantics` evaluates the syntax tree directly, with scopes, branches and loops, and
`Mathematics` states the operators and functions as mathematics does. Neither is
translated from code generation, so they have no entry in `map`; they are what
`RunsAsWritten` and `DependenciesComplete` compare with. They have their own comparisons
(by the sign of a difference), bit operations (on sets of places), conversions and choice
of an overload. What both sides share is how a number is represented (the widths, units,
wrapping and rounding of `Values`) and the signatures of `Declarations`.

The definitions marked *Fault* are plausible mistakes in the definition they
precede. Each property of a passing run is violated when one of them takes its
place; they are no part of a specification.

## Runs

| Run | Instance | Shows |
|---|---|---|
| `leaf_kernel` | 3 groups, 2 bits per array, 2 points, 3 strings, 2 of them known | three groups need a second array, so an array fills up and a new one starts; edits, compactions and strings in any order: all properties hold |
| `point_execution` | leaves of 2, 0 and 1 points, 2 groups, 1 bit per array, 3 registries, grids with 4 sets of attributes, 2 edits per leaf, until 1 execution has returned or 2 have thrown | parallel and serial; with and without execution group; with an empty leaf, a user's attribute (a vec3f one too) under the first name of the temporary, a mismatching type; failures before a success: all properties hold |
| `point_leave_group` | the same, kernels may leave the execution group | violation, finding 1 |
| `point_new_group` | the same, on grids without groups | violation, finding 2 |
| `volume_execution` | 2 grids of 3 voxels and 2 values, every pair of functions of two values, 5 lists, 2 with tiles, levels 0 to 2, 1 execution | grids of different resolution and topology, in any order, missing or of another type, read through tiles and run over by tile: all properties hold |
| `houdini_cook` | 4 snippets, 3 parameter sets, 6 sessions, a value of its own for each name, any number of cooks | the caches stay coherent through any sequence of successes and failures, and no execution can be told from one without them |
| `houdini_registry`, `houdini_mismatch` | the same | violations, findings 3 and 4 |
| `ax_run` | 27 programs on 2 inputs and their reprints, 12 compiled for points, 8 with an error or a warning, with and without a limit, 2 threads with a throwing parse or a shutdown | all properties hold |
| `ax_run_null` | `ax::run` of a program that compiles, one cut short, one with two errors | violation, finding 5 |
| `ax_run_cast` | a cast to the same type, to initialise a local and to assign | violation, finding 6 |
| `ax_run_dependency` | a conditional return; a loop that carries a value | violation, finding 7 |

The bounds are enough because the code compares and copies single entries: two
groups in one array and one in the next are the cases of `getOrInsert`; a leaf
before, an empty one and one after are those of the passes; two accesses, each of
which may depend on the other, are those of the copy in `registerVolumes`. The
bounds on executions, `MaxReturns`, `MaxThrows` and `MaxExecutes`, count calls of
`execute`; `MaxEdits` counts group edits in one leaf. `IndexWidth` is 2 instead of
64 bits, which leaves room for every count and makes the wrap of an empty leaf
visible. The Houdini run has no bound on the number of cooks.

`ax_run` has programs in place of bounds. Between them they reach every visitor, every
operator, each function of `Declarations` in every implementation, loops of each type
with break and continue, nested scopes, and custom data that is missing, given and of
another type. The
widths 3, 6 and 9 make integers wrap and literals overflow. The two inputs differ in
every attribute, which is what `DependenciesComplete` varies. Left out of the passing
run are programs that are undefined or meant otherwise in the source: finding 6 and 7,
an index out of range, a division by zero, a local read before it has a value, `clamp`
with its bounds crossed, `@a + (@a = 2)`, whose left side is loaded late, array
packs of arrays, bools and mixed widths as indices (true, sign extended, is the element
before the first), and fixed point results that round twice. The reprint of a whole
floating point literal or of `-(-a)`, and the C implementation of the matrix product,
are left out for the reason given below.

The passing point run checks grids that have a group and kernels that do not
take their point out of the execution group, since the two findings refute
`IngroupAgrees`, `MoveKeepsPositions` and `ImplementsPointKernels` outside these
conditions.

### Properties

* `NoAliasing`, `PendingIsNew`, `CopyIsExact`, `ImplementsLeafEdits`, `EachEditKept`:
  what a kernel stores in the leaf data is what it reads, and what the later pass
  copies to the grid.
* `KernelInBounds`: the generated loop visits only points that exist.
* `IngroupAgrees`: `ingroup` sees the edits before it.
* `StringsResolvable`: the parallel copy never throws on a string.
* `MoveKeepsPositions`: the sort that follows leaves each point where its kernel put it.
* `TempsBalanced`, `UserAttrsKept`: a temporary is left behind only by an execution
  that threw, and no attribute that the grid came with or that the registry names is
  dropped or retyped, whatever it is called and of whatever type. The history variable
  `given` tells the user's attributes from temporaries, which a name or a type would not:
  one of the grids has a vec3f `__P` of its own. `TempsBalanced` allows what the code
  does: each throw after the temporary is appended leaves one in the grid.
* `ImplementsPointKernels`: the passes together are one run of the kernel over each
  selected point.
* `ReadGridsLineUp`, `ReadsOriginal`, `ImplementsVolumeKernels`: a kernel reads the
  access it means, at its old value, and the result is that of the abstract kernel.
* `RunsCurrentKernel`, `ExternalsBound`, `ChannelsCurrent`, `CacheSound`: a cook never
  executes something stale.
* `ImplementsFreshCook`: a cook executes its own snippet with its own parameters, every
  channel and variable at the value of its own session, as if nothing were cached.
* `Termination` of both executables: each leaf and each voxel is done once, and the
  generated loop moves on from every point, so an execution ends however its kernels
  edit the groups it is filtered by.
* `ParsesAsAlone`: tree, locations and errors of a parse do not depend on other threads
  or on earlier parses, those an exception ended included; `AxRun.TypeOK` has the mutex.
* `ImplementsSharedParser`: the globals change only under the mutex, by the steps of
  `SharedParser`, and nothing but the parse writes to the logger of a thread that parses.
* `ImplementsParserOwnership`: every semantic action hands on each node it is given and
  makes to one owner, and each destructor deletes what its symbol owns.
* `NodesOwned`, `NodesLocated`: after any parse each node is in the tree or was deleted
  once, and has a location.
* `CopyLocated`: an error in the copy of a tree names the place of the node it was copied
  from, for every class of node, with absent children before it.
* `FailureIsReported`: each valid program compiles and no other does (`valid` of a call,
  which the scripts state); what fails has an error in the logger and what succeeds has
  none, with limits, with warnings as errors and after earlier errors.
* `StackHolds`, `WellFormed`: no visitor pops from an empty stack, also after an error in
  an earlier statement; each block ends once, and each phi names the blocks before it.
* `RunsAsWritten`: parser, scanners, generator, overloads, both implementations and the
  stores at each return together give the values the program means.
* `DependenciesComplete`: what the registry does not name as a dependency has no
  influence, which `VolumeExecution` assumes as `DepsAssumption`.
* `ReprintsSame`: parsing what was printed gives the tree again.

### Fairness

`PointExecution` and `VolumeExecution` assume weak fairness of the steps of an
execution that has begun: the calling thread and the pool's threads keep running,
and no step waits for a caller. Nothing is assumed of calls between executions.
`LeafKernel`, `HoudiniCook` and `AxRun` state no liveness and assume no fairness; in
`AxRun` only a thread that crashed or hangs stops before its script ends, since deadlock
is checked.

## Findings

1. *A point that leaves the execution group loses its position*
   (`PointExecutable.cc:700`). The filter is applied again when points are moved,
   after the kernel may have changed the group. The header says a group setting can
   equally be compiled in with `ingroup`, which keeps the position.
2. *`ingroup` misses a new group on a grid without groups* (`PointFunctions.cc:108`).
   It returns early when there is no group handle, before it asks the leaf data.
3. *The function registry may not follow the VEX flag* (`SOP_OpenVDB_AX.cc:1006`).
   The registry changes before the parse, the cached flag only after the compile.
4. *A variable of changed type keeps its old value* (`SOP_OpenVDB_AX.cc:1341`). The
   zero is left to the compiler, which a cached cook does not call.
5. *`ax::run` uses a null tree* (`ax.cc:82`), or a null executable, where its comments
   say that the calls before throw.
6. *A cast to the same type leaves nothing* (`ComputeGenerator.cc:942`). It pops its
   operand and returns. The integration test skips exactly these casts.
7. *Dependencies through control flow are missed* (`Scanners.cc:86`): of what follows a
   conditional return on the condition, and of a value carried around a loop. A grid
   may then be read after it was written.

Also met, and stated by no run, because the passing run leaves the case out or no
property is about it:

* The C binding of the matrix product computes B A where the IR computes A B
  (`StandardFunctions.cc:1473`).
* A vec3 times a mat4 has no function: the condition tests `lsize == 4 && rsize == 16`
  twice (`ComputeGenerator.cc:1492`).
* The reprint writes `1.0f` as `1f`, and `-(-a)` as `--a` (`PrintTree.cc:846`, `900`).
* `Scanners.h:97` calls the attribute of `@a=1;` write only; with a statement above it
  `catalogueVariables` always makes it read as well (`Scanners.cc:390`).
* `Loop::replacechild` gives the new iteration itself as its parent (`AST.h:843`), so
  `for (...; ...; @P)` compiled for points never ends: the run reaches `Hang`.
* `int a` as the condition of a while loop is not visible in its body.

## Proofs

The theorems hold for all values of the constants that the named assumptions of each
module allow. Each component has an inductive invariant, `IndInv`, in its proof module:
`Init => IndInv`, one lemma per action that it is kept, and the properties follow from it.

*`LeafKernel`*, for any sets of groups, strings and string attributes, any number of
points and of bits per array: `LeafDataSound` (`Spec => []IndInv`), `TypeCorrect`,
`GroupsDoNotAlias`, `PendingStringsAreNew`, `CopyPassExact`, and the refinement,
`LeafKernelImplementsLeafEdits` with `EditsAreKept`, which step is which.
`NoAliasing` is not inductive. That the bit handed out next is taken by no group
needs `NextBitFree` (handles of the last array lie below the offset); that it is
off at every point, so that a new group starts empty, needs `BitsOwned` (a bit that
is on has a group); and that a copy by the uniform flag is exact needs
`UniformFlags`. Each operator of the class has a lemma that it keeps them, and says what
it does to every group, in `PointLeafLocalData_proofs`: first for `getOrInsert` and
`SetBit` as values, since the invariant also holds between the two calls of an edit. The
theorems about the leaf alone and about whole executions rest on the same lemmas.

*`PointExecution`*, for any leaves and counts of points, registries, settings, grids,
number of calls and of throws: `PassesSound`, `TypesOK`, `KernelStaysInBounds`,
`StringsAreResolvable`, `UserAttrsAreKept`, `TempsAreBalanced`, and under a condition each
`IngroupSeesEdits` and `MovesKeepPositions`. What is inductive has four parts:

* `IndInv`. `LoopSound` says that a leaf whose kernel runs is not empty and its index is
  below its count, or the loop would pass its end by the wrap of `count - 1`;
  `GroupsApart` that a leaf keeps only groups the grid lacks until they are appended to
  it; `StringsSound` that what is pending in any leaf is in the metadata before a leaf is
  copied.
* `Covered`: a leaf that was opened has a temporary position for the point it runs and
  for each point the filter lets through now, so `movePoints` never reads one that was
  not stored. With `FilterKept` it has no others.
* `AttrsSound`: the attributes are those the grid came with (`given`), those of the
  registry passed so far and at most one temporary for each execution that threw, plus the
  one of the execution under way, which has a name that none of the others has. `uniqueName` counts up until a name is free. In the model it chooses from
  `TempNames`, a sequence of distinct names, and `TempNamesAssumption` asks for more of
  them than the user's attributes, a registry's and one per throw can take.
* `Values`: the types of what the passes hand on.

The conditions: `IngroupSeesEdits` wants a grid with a group (it keeps one, `HasGroups`)
and `MovesKeepPositions` that no kernel takes its point out of the execution group; the
findings 1 and 2 refute the two properties without them.

`PointExecutionImplementsPointKernels` adds the refinement, under the same condition:
grid and leaf data seen together change at a point only while its kernel runs, each
selected point runs once, and an execution that throws has changed no point. The lookup
of the kernel is `Begin`, an opened leaf `Open`, an edit `Add` or `Remove`, the return of
a kernel `Return`, any throw `Abort`, the end `Finish`; merging, appending, copying and
moving stutter. `RefInv` adds two parts. `Unopened`: a leaf still to be opened holds
nothing, and none is opened if a handle does not bind, so a throw has nothing to undo.
`Handed`: once a leaf is copied, its groups and strings are in the grid exactly as they
were seen in the leaf, so dropping the leaf data changes nothing that is seen.

*`VolumeExecution`*, for any kernels whose registry has one access of a name and type
(`KernelAssumption`), grids whose transform takes held voxels back to themselves
(`GridAssumption`), levels and voxels: `GridsSound`, `TypeCorrect`, `GridsLineUp`,
`OriginalsAreRead`. `Registered` relates each access to its grid and each written grid to
one access; `Running` says that copies are the old values, that topology is what it was,
and that a value differs from before only where it was visited. A value that is read
uncopied from a written grid is then the one at the voxel itself, not yet visited, for no
other access depends on it.

`VolumeExecutionImplementsVolumeKernels` adds the refinement, on lists without two grids
of one name and type. Without that condition it is false: a kernel on a single grid runs
on the second of two equal names, where the abstract kernel takes the first. `Remaining`
is what is left of each written grid. The values computed agree because a kernel is a
function of what it depends on (`DependenciesDecide`): if two inputs agree on the
dependencies and gave different results, then going from one input to the other an access
at a time, the first change of the result would be a dependency they differ in.

*`HoudiniCook`*, for any snippets without a hash collision (`HashAssumption`), parameters
and sessions: `NodeSound`, `TypeCorrect`, `CacheIsSound`, `KernelIsCurrent`,
`ExternalsAreBound`, `ChannelsAreCurrent`. `CacheSound` alone is not inductive:
`PhaseSound` adds that the hash is 0 from a parse until its kernel is compiled, so that
no later cook trusts what a failure leaves, and `Current` that the last evaluation
inserted every external at what it may read, whichever cook compiled, but for variables
of another type.

`HoudiniCookImplementsFreshCook` adds the refinement. Two more parts are needed for it:
`HashedIsValid`, since a cook that finds its hash neither parses nor compiles, and
`DataGiven`, that an entry of the custom data only ever holds a value of its own name,
which is all that can be said of what finding 4 leaves there. The two ways into the
execution, a compilation and an evaluation of a cook that reuses the executable, are
`Prepare`; what ends a cook before is `Fail`, and the other steps stutter.

*`SharedParser`*, for any threads, calls, deterministic parser and logger: `ParserShared`,
`OneParsesAtATime`, `CallsParseAsAlone` and `OwnErrorsOnly`. That outcomes agree is not
inductive: `Underway` says that parser, location and logger are a state of the course its
call would take alone, and `Ends` that what was recorded is the end of one. Two courses of one
call agree as far as both go (`CoursesAgree`, by the least step at which they would not),
so there is one end. Without the reset of the location, or with a parse that began before
the last ended, `Underway` fails. The only assumption is that `NoThread` is no thread.

*`ParserOwnership`*, for any rules, codes and nodes, without an assumption:
`OwnershipSound`, `NodesHaveOneOwner` and `NodesAreOwned`. That a parse which returns
deleted just what it does not return is not inductive; what is, is that at every step each
node alive is in `*tree` or in one entry (`OneOwner`). `OwnedSplit` and `OwnedAppend` say what
the popped part, the rest and the pushed entry own. A handler that throws loses the nodes
the stack owns at that moment, and no others.

Only model-checked: that `AxRun` implements `SharedParser` and `ParserOwnership`, and the
other properties of `AxRun`, whose trees and programs need recursive operators, which the
prover does not take. `NodesOwned` of `AxRun` is what `NodesAreOwned` says, by way of that
refinement. Out of the prover's reach: `Termination`, which is liveness.

## Not modelled

* Of the front end: memory exhaustion in the parser, the text of messages, the indented
  dump of a tree, searches in a tree that only the Houdini node makes.
* Of the code generator: rand, hash, noise, print, string conversions, `lookup`, colour
  conversion, polar decomposition and the plain wrappers of the C math library; LLVM's passes and verification. Floating
  point is fixed point in the model, so infinities, NaN and precision are out.
* What a throwing handler leaks (the scan buffer, the nodes on the stack), identifiers that
  are never freed, and the stack a string assignment takes in a loop: memory, not behaviour.
* In the passes of the executables: grids of unsupported types, vector, matrix and string
  grids, attributes of points besides P and strings, attribute length. What a kernel does
  with values of these types is in `AxRun`.
* `movePoints` keeps each point's identity in the model; sorting into leaves is
  OpenVDB's.
* In Houdini: the conversion of VEX, deletion and pruning after the execution, hash
  collisions (excluded by `HashAssumption`).
* The command line tool and the Python bindings, which have no state of their own.

## Plan

* *Composition*: point functions on several executions of one grid, deletion after
  the execution.
