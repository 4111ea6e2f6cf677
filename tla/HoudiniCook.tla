----------------------------- MODULE HoudiniCook ----------------------------
(***************************************************************************)
(* SOP_OpenVDB_AX::Cache::cookVDBSop: the Houdini node that keeps compiled *)
(* executables between cooks.  A cook recompiles when the hash of the      *)
(* snippet or a cached parameter has changed, else it only evaluates the   *)
(* external expressions of the snippet again; then it executes.  It may    *)
(* leave through an error or an exception at several points, and the next  *)
(* cook starts from what is left.                                          *)
(*                                                                         *)
(* A snippet is a record: its hash; whether it parses, whether it is valid *)
(* AX, and whether it calls a function only the VEX registry has; the      *)
(* channel paths and the $ names it reads; whether it calls deletepoint.   *)
(* An executable holds the addresses of the entries of the custom data, so *)
(* it is bound until the custom data is reset.                             *)
(***************************************************************************)
CONSTANTS
    Snippets,
    Name,          \* the channel paths and $ names
    Val, Zero,     \* the values of an external
    NotFound,      \* a path or variable that does not exist
    Mismatch,      \* a variable that exists with another type than accessed
    Sessions,      \* what the session may hold: channels and HScript variables
    Params,        \* the parameters a cook may have
    NoExecutable

Target == {"POINTS", "VOLUMES"}
ParameterCache == [hscript : BOOLEAN, vex : BOOLEAN, target : Target]
Session ==
    [channels : [Name -> Val \cup {NotFound}], variables : [Name -> Val \cup {NotFound, Mismatch}]]

\* No two snippets of a session collide, and none has the hash 0, which marks
\* the cache as invalid.
ASSUME HashAssumption ==
    \A s, t \in Snippets : s.hash # 0 /\ (s.hash = t.hash => s = t)
ASSUME ZeroAssumption == Zero \in Val /\ NotFound \notin Val /\ Mismatch \notin Val \cup {NotFound}
ASSUME RequestAssumption == Sessions \subseteq Session /\ Params \subseteq ParameterCache
ASSUME SnippetAssumption ==
    /\ \A s \in Snippets : s.channels \cup s.dollars \subseteq Name /\ s.deletes \in BOOLEAN
    /\ NoExecutable \notin [snippet : Snippets, vex : BOOLEAN, bound : BOOLEAN]

VARIABLES
    hash, params,           \* mHash and mParameterCache
    registryVex,            \* whether the compiler's registry has the VEX functions
    channelSet, dollarSet,  \* mChExpressionSet and mDollarExpressionSet
    data,                   \* mCustomData: a map of names to values
    executable,             \* mPointExecutable and mVolumeExecutable
    requiresDeletion,
    phase, request,         \* the cook under way, its snippet and parameters
    session                 \* what the last evaluation of the externals saw

cache == <<hash, params, registryVex, channelSet, dollarSet, data, executable, requiresDeletion>>
vars  == <<cache, phase, request, session>>

\* The default target of ParameterCache is LOCAL, which no node runs over.
Init ==
    /\ hash = 0
    /\ params = [hscript |-> TRUE, vex |-> TRUE, target |-> "LOCAL"]
    /\ registryVex = TRUE
    /\ channelSet = {} /\ dollarSet = {}
    /\ data = [x \in {} |-> Zero]
    /\ executable = [t \in Target |-> NoExecutable]
    /\ requiresDeletion = FALSE
    /\ phase = "idle" /\ request = <<>>
    /\ session = <<>>

Snippet == request.snippet
Requested == request.params

\* The cook begins; with no VDB selected or an empty snippet it ends at once.
Cook ==
    /\ phase = "idle"
    /\ \E s \in Snippets, p \in Params :
        /\ request' = [snippet |-> s, params |-> p]
        /\ phase' = IF hash # s.hash \/ params # p THEN "recompile" ELSE "refresh"
    /\ UNCHANGED <<cache, session>>

\* The request is over, after an error or not.
Return == phase' = "idle" /\ request' = <<>> /\ session' = <<>>

\* Fault: the hash of the last success stays until the next.
RecompileKeepsHash ==
    /\ phase = "recompile"
    /\ channelSet' = {} /\ dollarSet' = {}
    /\ registryVex' = IF params.vex # Requested.vex THEN Requested.vex ELSE registryVex
    /\ phase' = "parse"
    /\ UNCHANGED <<hash, params, data, executable, requiresDeletion, request, session>>

\* The hash and the expression sets are emptied, the registry is rebuilt if the
\* VEX flag differs from that of the cached parameters.
Recompile ==
    /\ phase = "recompile"
    /\ hash' = 0 /\ channelSet' = {} /\ dollarSet' = {}
    /\ registryVex' = IF params.vex # Requested.vex THEN Requested.vex ELSE registryVex
    /\ phase' = "parse"
    /\ UNCHANGED <<params, data, executable, requiresDeletion, request, session>>

\* After the reset of the custom data the addresses in executables dangle.
Unbound == [t \in Target |->
    IF executable[t] = NoExecutable THEN NoExecutable ELSE [executable[t] EXCEPT !.bound = FALSE]]

Parse ==
    /\ phase = "parse"
    /\ \/ /\ ~ Snippet.parses
          /\ Return
          /\ UNCHANGED cache
       \/ /\ Snippet.parses
          /\ channelSet' = Snippet.channels /\ dollarSet' = Snippet.dollars
          /\ data' = [x \in {} |-> Zero]
          /\ executable' = Unbound
          /\ phase' = "evaluate"
          /\ UNCHANGED <<hash, params, registryVex, requiresDeletion, request, session>>

\* Fault: the parameter for HScript support is not looked at.
IsVariableAlways(h, x) == x \in dollarSet /\ h.variables[x] # NotFound

\* evaluateExternalExpressions, once for the channels and once for the $ names.
\* With HScript support a $ name is a variable if one exists, and if it has
\* another type nothing is inserted; anything else is a channel, and zero if
\* there is none.
IsVariable(h, x) == x \in dollarSet /\ Requested.hscript /\ h.variables[x] # NotFound
Differs(h, x) == IsVariable(h, x) /\ h.variables[x] = Mismatch
Inserted(h) == channelSet \cup {x \in dollarSet : ~ Differs(h, x)}
\* Fault: nothing stands for a channel that is not found.
EvaluatedNoZero(h, x) ==
    IF IsVariable(h, x) /\ ~ Differs(h, x) THEN h.variables[x] ELSE h.channels[x]

Evaluated(h, x) ==
    IF IsVariable(h, x) /\ ~ Differs(h, x) THEN h.variables[x]
    ELSE IF h.channels[x] # NotFound THEN h.channels[x] ELSE Zero

\* Fault: an entry that exists is left alone.
InsertOnce(h, names) ==
    data' = [x \in DOMAIN data \cup names |-> IF x \in DOMAIN data THEN data[x] ELSE Evaluated(h, x)]

\* insertData copies the value into an entry that exists, whose address stays.
Insert(h, names) ==
    data' = [x \in DOMAIN data \cup names |-> IF x \in names THEN Evaluated(h, x) ELSE data[x]]

Evaluate ==
    /\ phase \in {"evaluate", "refresh"}
    /\ \E h \in Sessions : Insert(h, Inserted(h)) /\ session' = h
    /\ phase' = IF phase = "evaluate" THEN "compile" ELSE "execute"
    /\ UNCHANGED <<hash, params, registryVex, channelSet, dollarSet, executable, requiresDeletion,
                   request>>

\* A relative channel path cannot be evaluated without a source node, nor an
\* entry be given a value of another type: what was inserted before it stays.
EvaluateThrows ==
    /\ phase \in {"evaluate", "refresh"}
    /\ \E h \in Sessions : \E done \in SUBSET Inserted(h) :
        done # channelSet \cup dollarSet /\ Insert(h, done)
    /\ Return
    /\ UNCHANGED <<hash, params, registryVex, channelSet, dollarSet, executable, requiresDeletion>>

\* Whether the compiler reports no error: the function registry must have every
\* function the snippet calls.
Compiles == Snippet.valid /\ (Snippet.vex => registryVex)

\* For points the deletion flag is set before the compiler is called.
SetDeletion ==
    requiresDeletion' = IF Requested.target = "POINTS" THEN Snippet.deletes ELSE requiresDeletion

\* Fault: the compiler inserts no zero.
CompileNoZeros ==
    /\ phase = "compile" /\ Compiles
    /\ executable' = [executable EXCEPT ![Requested.target] =
            [snippet |-> Snippet, vex |-> Requested.vex, bound |-> TRUE]]
    /\ SetDeletion
    /\ params' = Requested
    /\ hash' = Snippet.hash
    /\ phase' = "execute"
    /\ UNCHANGED <<registryVex, channelSet, dollarSet, data, request, session>>

\* Compiler::compile binds every external the snippet reads, and inserts a zero
\* for those that have no entry; a failure leaves no executable, an exception
\* the one there was.
Compile ==
    /\ phase = "compile" /\ Compiles
    /\ executable' = [executable EXCEPT ![Requested.target] =
            [snippet |-> Snippet, vex |-> Requested.vex, bound |-> TRUE]]
    /\ data' = [x \in DOMAIN data \cup Snippet.channels \cup Snippet.dollars |->
                    IF x \in DOMAIN data THEN data[x] ELSE Zero]
    /\ SetDeletion
    /\ params' = Requested
    /\ hash' = Snippet.hash
    /\ phase' = "execute"
    /\ UNCHANGED <<registryVex, channelSet, dollarSet, request, session>>

\* Fault: the hash is set before the errors are looked at.
CompileFailsHashed ==
    /\ phase = "compile" /\ ~ Compiles
    /\ executable' = [executable EXCEPT ![Requested.target] = NoExecutable]
    /\ SetDeletion
    /\ params' = Requested
    /\ hash' = Snippet.hash
    /\ Return
    /\ UNCHANGED <<registryVex, channelSet, dollarSet, data>>

CompileFails ==
    /\ phase = "compile" /\ ~ Compiles
    /\ executable' = [executable EXCEPT ![Requested.target] = NoExecutable]
    /\ SetDeletion
    /\ params' = Requested
    /\ Return
    /\ UNCHANGED <<hash, registryVex, channelSet, dollarSet, data>>

CompileThrows ==
    /\ phase = "compile"
    /\ SetDeletion
    /\ Return
    /\ UNCHANGED <<hash, params, registryVex, channelSet, dollarSet, data, executable>>

\* The executable of the cached target runs, or throws; neither changes the cache.
Execute ==
    /\ phase = "execute"
    /\ Return
    /\ UNCHANGED cache

Next ==
    \/ Cook \/ Recompile \/ Parse \/ Evaluate \/ EvaluateThrows
    \/ Compile \/ CompileFails \/ CompileThrows \/ Execute

Spec == Init /\ [][Next]_vars

-----------------------------------------------------------------------------
(* Properties.                                                             *)

Executable ==
    [snippet : Snippets, vex : BOOLEAN, bound : BOOLEAN] \cup {NoExecutable}

TypeOK ==
    /\ hash \in {0} \cup {s.hash : s \in Snippets}
    /\ params \in [hscript : BOOLEAN, vex : BOOLEAN, target : Target \cup {"LOCAL"}]
    /\ registryVex \in BOOLEAN
    /\ channelSet \subseteq Name /\ dollarSet \subseteq Name
    /\ DOMAIN data \subseteq Name /\ data \in [DOMAIN data -> Val]
    /\ executable \in [Target -> Executable]
    /\ requiresDeletion \in BOOLEAN
    /\ phase \in {"idle", "recompile", "refresh", "parse", "evaluate", "compile", "execute"}
    /\ phase # "idle" => request \in [snippet : Snippets, params : Params]
    /\ phase \in {"compile", "execute"} => session \in Sessions

\* What an execution uses: the executable of the cached target.
Running == executable[params.target]

\* Whatever cooks failed, and wherever, before it, an execution runs the kernel
\* of this cook's snippet, converted as this cook's VEX flag asks, and deletes
\* points after it exactly if the snippet calls deletepoint.
RunsCurrentKernel ==
    phase = "execute" =>
        /\ params = Requested
        /\ Running # NoExecutable /\ Running.snippet = Snippet /\ Running.vex = Requested.vex
        /\ params.target = "POINTS" => requiresDeletion = Snippet.deletes

\* The addresses of the externals in the executable that runs are those of the
\* entries of the custom data, each of which exists.
ExternalsBound ==
    phase = "execute" =>
        Running.bound /\ Snippet.channels \cup Snippet.dollars \subseteq DOMAIN data

\* Every channel read is the one of this cook, also when nothing is recompiled.
ChannelsCurrent ==
    phase = "execute" => \A x \in Snippet.channels \ Snippet.dollars :
        data[x] = IF session.channels[x] = NotFound THEN Zero ELSE session.channels[x]

\* Why a cook may trust the cache: while the hash is that of a snippet, the
\* expression sets, the executable and the custom data are all its own.
CacheSound ==
    hash # 0 => \E s \in Snippets :
        /\ s.hash = hash
        /\ channelSet = s.channels /\ dollarSet = s.dollars
        /\ s.channels \cup s.dollars \subseteq DOMAIN data
        /\ params.target \in Target
        /\ executable[params.target] = [snippet |-> s, vex |-> params.vex, bound |-> TRUE]
        /\ params.target = "POINTS" => requiresDeletion = s.deletes

\* What is executed: the kernel and the flag of the cached target, on the entries of the
\* custom data its addresses point to.
Plan ==
    IF phase # "execute" THEN <<>>
    ELSE [snippet |-> Running.snippet, vex |-> Running.vex, target |-> params.target,
          deletes |-> params.target = "POINTS" /\ requiresDeletion,
          read |-> [x \in Running.snippet.channels \cup Running.snippet.dollars |->
                        IF Running.bound THEN data[x] ELSE NotFound]]

Stage ==
    IF phase = "idle" THEN "idle" ELSE IF phase = "execute" THEN "executing" ELSE "preparing"

F == INSTANCE FreshCook WITH stage <- Stage, plan <- Plan

\* No cook can be told from one of a node without hash, sets, custom data, executables or
\* flags: whatever earlier cooks left, and wherever they failed, it executes its own
\* snippet with its own parameters, every external at the value its own session gives it.
ImplementsFreshCook == F!Spec

\* The registry a snippet is compiled with has the VEX functions if, and only
\* if, VEX support is on.
RegistryFollowsFlag == phase = "compile" => registryVex = Requested.vex

\* A $ variable of another type than the one accessed reads as zero.
MismatchIsZero ==
    phase = "execute" => \A x \in Snippet.dollars \ Snippet.channels :
        Differs(session, x) => data[x] = Zero
=============================================================================
